---- MODULE Spec2Model ----
(***************************************************************************)
(* Model of the podcast generator (podcast_generator_v2.py):               *)
(*   - ApiKeyManager: credential rotation, retry engine, usage ledger and  *)
(*     its file (credits_log.json);                                        *)
(*   - SpeechSynthesizer.synthesize as the caller of the retry engine;     *)
(*   - ScriptParser.parse, the script tokenizer.                           *)
(* Spec      : the credential pool, the ledger and its file, with crashes. *)
(* SpecParse : the tokenizer applied line by line to bounded scripts.      *)
(***************************************************************************)
EXTENDS Integers, Sequences, FiniteSets, TLC

(***************************************************************************)
(* Bounds of the model.                                                    *)
(***************************************************************************)
\* largest pool size (number of API keys) explored
MaxKeys == 3
\* number of distinct 8-character key prefixes among the keys
NumPrefixes == 2
\* largest configured max_retries explored
MaxRetriesBound == 3
\* largest number of lines of a script
MaxLines == 4
\* number of synthesis calls started over a behaviour (also the clock's range)
MaxCalls == 2
\* largest text length (characters) of a synthesis call
MaxChars == 2
\* the short clip and target durations (ms) explored by the fitting rule
MaxClipMs == 7
\* most copies of a clip the explored fittings lay end to end
MaxTiles == 8

(***************************************************************************)
(* API keys.  A key is a string; the model writes it as a number whose     *)
(* leading part is its first 8 characters and whose last digit is the      *)
(* rest, so that two different keys may share a prefix.                    *)
(***************************************************************************)
Key(i) == 10 * (((i - 1) % NumPrefixes) + 1) + ((i - 1) \div NumPrefixes) + 1

\* api_key[:8] + '...'
KeyId(api_key) == api_key \div 10

\* headers without an "xi-api-key" entry
NoKey == 0

Pool(n) == [i \in 1..n |-> Key(i)]

VARIABLES
  \* ---- ApiKeyManager
  api_keys,            \* self.api_keys
  max_retries,         \* self.max_retries
  retry_failed_calls,  \* self.retry_failed_calls
  current_index,       \* self.current_index (0-based, as in the code)
  credits_log,         \* self.credits_log, the in-memory ledger
  file,                \* the ledger file credits_log.json
  \* ---- one synthesize / make_api_call in progress
  pc,                  \* position of the process
  current_attempt,     \* make_api_call's local current_attempt
  hdr_key,             \* headers["xi-api-key"], NoKey when absent
  text_len,            \* len(text) of the call in progress
  call_result,         \* what the last finished make_api_call returned
  \* ---- history of the behaviour (not program state)
  clock,               \* calls started so far; datetime.now() of a record
  issued,              \* keys returned by get_next_api_key in this process
  last_used,           \* key of the latest outbound attempt of this process
  attempts,            \* outbound attempts of this invoke so far
  sleeps,              \* time.sleep(self.retry_delay) calls of this invoke so far
  last_outcome,        \* outcome of the latest outbound attempt of this invoke
  call_start,          \* ledger and file when the call in progress started
  completed,           \* <<key id, record>> of every log_credit_usage that returned
  run_start_file,      \* the ledger file when this process started
  \* ---- ScriptParser.parse
  script,              \* the lines read so far (f.readlines())
  chunks,              \* chunks
  current_speaker,     \* current_speaker
  buffer,              \* buffer
  ppc,                 \* position of the parser
  \* ---- the duration fitting of SoundEffectsGenerator.generate_sfx
  fit_clip,            \* sfx before the fitting
  fit_target,          \* duration_ms
  fit_out,             \* sfx after the fitting
  fit_pc,              \* position of the fitting
  \* ---- main and PodcastGenerator.generate
  gen_version,         \* 1: podcast_generator.py, 2: podcast_generator_v2.py
  gen_cfg,             \* the settings generate reads from the configuration
  gen_script,          \* the lines of the script file
  gen_chunks,          \* chunks = parser.parse()
  gen_idx,             \* chunks the loop has gone through
  podcast,             \* podcast
  sfx_cache,           \* sfx_cache
  gen_pc,              \* position of main and generate
  exit_status,         \* what main returned, <<>> before it returns
  \* ---- history of the generation (not program state)
  handled,             \* indices of the chunks the loop went through, in order
  budget,              \* silences and clips put on the timeline, overlaid or not
  overlaid,            \* some effect was laid over the tail
  last_clip,           \* clip the latest chunk gave, <<>> if it gave none
  sent,                \* the API calls of the run: chunk, data["text"], result
  console,             \* what the UI and the logger wrote that shows a key
  \* ---- the processes the UI started that share the ledger file
  runs                 \* per process: position, in-memory ledger, record being saved

poolVars == <<api_keys, max_retries, retry_failed_calls, current_index,
              credits_log, file, pc, current_attempt, hdr_key, text_len,
              call_result, clock, issued, last_used, attempts, sleeps,
              last_outcome, call_start, completed, run_start_file>>
parseVars == <<script, chunks, current_speaker, buffer, ppc>>
fitVars == <<fit_clip, fit_target, fit_out, fit_pc>>
genVars == <<gen_version, gen_cfg, gen_script, gen_chunks, gen_idx, podcast,
             sfx_cache, gen_pc, exit_status, handled, budget, overlaid, last_clip,
             sent, console>>
sharedVars == <<runs>>
nonPoolVars == <<parseVars, fitVars, genVars, sharedVars>>
nonParseVars == <<poolVars, fitVars, genVars, sharedVars>>
nonFitVars == <<poolVars, parseVars, genVars, sharedVars>>
nonGenVars == <<poolVars, parseVars, fitVars, sharedVars>>
vars == <<poolVars, parseVars, fitVars, genVars, sharedVars>>

(***************************************************************************)
(* The usage ledger.                                                       *)
(***************************************************************************)
\* {"total_credits_used": 0, "calls": []}
EmptyEntry == [total_credits_used |-> 0, calls |-> <<>>]

\* the ledger with no key
NoLedger == [id \in {} |-> EmptyEntry]

\* the file: absent, unparsable (empty or partly written), or a JSON ledger
MissingFile == [state |-> "missing", data |-> NoLedger]
PartialFile == [state |-> "partial", data |-> NoLedger]
ValidFile(log) == [state |-> "valid", data |-> log]

\* _load_credits_log: the file's ledger when it exists and parses, else an
\* empty entry for each key of the pool
LoadCreditsLog(f, keys) ==
  IF f.state = "valid"
    THEN f.data
    ELSE [id \in {KeyId(keys[i]) : i \in DOMAIN keys} |-> EmptyEntry]

\* the record log_credit_usage appends
CallRecord(ts, operation_type, character_count, credits_used) ==
  [timestamp |-> ts, operation_type |-> operation_type,
   character_count |-> character_count, credits_used |-> credits_used]

\* the ledger with an entry for key_id
WithEntry(log, key_id) ==
  IF key_id \in DOMAIN log THEN log ELSE (key_id :> EmptyEntry) @@ log

\* a log_credit_usage that appends the record twice
LogCreditUsageTwice(log, api_key, character_count, credits_used, operation_type, ts) ==
  LET key_id == KeyId(api_key)
      rec == CallRecord(ts, operation_type, character_count, credits_used)
  IN  [WithEntry(log, key_id) EXCEPT ![key_id] =
         [total_credits_used |-> @.total_credits_used + 2 * credits_used,
          calls |-> Append(Append(@.calls, rec), rec)]]

\* a log_credit_usage that assigns the total instead of adding to it
LogCreditUsageAssign(log, api_key, character_count, credits_used, operation_type, ts) ==
  LET key_id == KeyId(api_key)
  IN  [WithEntry(log, key_id) EXCEPT ![key_id] =
         [total_credits_used |-> credits_used,
          calls |-> Append(@.calls,
                      CallRecord(ts, operation_type, character_count, credits_used))]]

\* log_credit_usage, the in-memory part: the entry is created when absent,
\* the total grows by credits_used and the record is appended
LogCreditUsage(log, api_key, character_count, credits_used, operation_type, ts) ==
  LET key_id == KeyId(api_key)
  IN  [WithEntry(log, key_id) EXCEPT ![key_id] =
         [total_credits_used |-> @.total_credits_used + credits_used,
          calls |-> Append(@.calls,
                      CallRecord(ts, operation_type, character_count, credits_used))]]

\* get_next_api_key: the key at the cursor
NextApiKey(keys, idx) == keys[idx + 1]

\* a get_next_api_key that advances the cursor by two
NextIndexSkip(keys, idx) == (idx + 2) % Len(keys)

\* get_next_api_key: the cursor after the call
NextIndex(keys, idx) == (idx + 1) % Len(keys)

RECURSIVE SumCredits(_)
SumCredits(calls) ==
  IF calls = <<>> THEN 0
  ELSE calls[1].credits_used + SumCredits(Tail(calls))

RECURSIVE NumRecords(_)
NumRecords(log) ==
  IF DOMAIN log = {} THEN 0
  ELSE LET id == CHOOSE k \in DOMAIN log : TRUE
       IN  Len(log[id].calls) + NumRecords([k \in DOMAIN log \ {id} |-> log[k]])

(***************************************************************************)
(* Audio.  An AudioSegment is the sequence of its pieces; a piece is ms     *)
(* milliseconds of a source from offset off, with a gain in dB, or a mix   *)
(* of a base and of what is laid over it from its start.                   *)
(***************************************************************************)
Piece(src, off, ms, gain) ==
  [src |-> src, off |-> off, ms |-> ms, gain |-> gain, norm |-> 0,
   base |-> <<>>, over |-> <<>>]

\* AudioSegment.silent(duration=ms)
Silent(ms) == IF ms > 0 THEN <<Piece(<<"silence", 0>>, 0, ms, 0)>> ELSE <<>>

\* len(audio), in milliseconds
RECURSIVE Dur(_)
Dur(audio) == IF audio = <<>> THEN 0 ELSE audio[1].ms + Dur(Tail(audio))

\* audio[a:b], a and b in milliseconds, cut to the audio
RECURSIVE Slice(_, _, _)
Slice(audio, a, b) ==
  IF audio = <<>> \/ b <= 0 \/ b <= a THEN <<>>
  ELSE LET p == audio[1]
           lo == IF a > 0 THEN a ELSE 0
           hi == IF b < p.ms THEN b ELSE p.ms
           cut == [p EXCEPT !.off = @ + lo, !.ms = hi - lo,
                            !.base = Slice(@, lo, hi), !.over = Slice(@, lo, hi)]
       IN  (IF lo < hi THEN <<cut>> ELSE <<>>) \o Slice(Tail(audio), a - p.ms, b - p.ms)

\* audio * n
RECURSIVE Repeat(_, _)
Repeat(audio, n) == IF n <= 0 THEN <<>> ELSE audio \o Repeat(audio, n - 1)

\* audio + db (audio - db is WithGain(audio, -db))
WithGain(audio, db) == [i \in DOMAIN audio |-> [audio[i] EXCEPT !.gain = @ + db]]

\* base.overlay(clip): as long as base, clip mixed in from position 0
Overlay(base, clip) ==
  IF base = <<>> THEN <<>>
  ELSE << [Piece(<<"mix", 0>>, 0, Dur(base), 0)
             EXCEPT !.base = base, !.over = Slice(clip, 0, Dur(base))] >>

\* a normalization that is applied twice
NormalizedTwice(audio) == [i \in DOMAIN audio |-> [audio[i] EXCEPT !.norm = @ + 2]]

\* normalize(audio): one gain for the whole audio, its length kept; norm
\* counts the normalizations a piece went through
Normalized(audio) == [i \in DOMAIN audio |-> [audio[i] EXCEPT !.norm = @ + 1]]

\* a fitting that repeats the clip duration_ms // len(sfx) times
FitDurationShort(sfx, duration_ms) ==
  IF Dur(sfx) > duration_ms THEN Slice(sfx, 0, duration_ms)
  ELSE IF Dur(sfx) < duration_ms
    THEN Slice(Repeat(sfx, duration_ms \div Dur(sfx)), 0, duration_ms)
  ELSE sfx

\* generate_sfx, "Adjust duration if needed"
FitDuration(sfx, duration_ms) ==
  IF Dur(sfx) > duration_ms THEN Slice(sfx, 0, duration_ms)
  ELSE IF Dur(sfx) < duration_ms
    THEN Slice(Repeat(sfx, duration_ms \div Dur(sfx) + 1), 0, duration_ms)
  ELSE sfx

\* no process was started from the UI
SharedIdle == runs = <<>>

FitIdle ==
  /\ fit_clip = <<>>
  /\ fit_target = 0
  /\ fit_out = <<>>
  /\ fit_pc = "off"

\* DEFAULT_CONFIG, sections Audio and SoundEffects
DefaultConfig ==
  [intro_silence |-> 500, silence_between_chunks |-> 200, normalize_audio |-> TRUE,
   sfx_overlap |-> TRUE, default_duration |-> 3000, volume_reduction |-> 10]

GenIdle ==
  /\ gen_version = 2
  /\ gen_cfg = DefaultConfig
  /\ gen_script = <<>>
  /\ gen_chunks = <<>>
  /\ gen_idx = 0
  /\ podcast = <<>>
  /\ sfx_cache = <<>>
  /\ gen_pc = "off"
  /\ exit_status = <<>>
  /\ handled = <<>>
  /\ budget = 0
  /\ overlaid = FALSE
  /\ last_clip = <<>>
  /\ sent = <<>>
  /\ console = <<>>

(***************************************************************************)
(* Initial states: ApiKeyManager.__init__ on a non-empty pool, any         *)
(* configuration, and a ledger file left by earlier runs.                  *)
(***************************************************************************)
\* a record written by an earlier run
OldRecord == CallRecord(0, "speech_synthesis", MaxChars, MaxChars)

\* the ledger an earlier run with the first key left in the file
OldLedger == KeyId(Key(1)) :> [total_credits_used |-> MaxChars, calls |-> <<OldRecord>>]

InitialFiles == {MissingFile, PartialFile, ValidFile(OldLedger)}

\* the text lengths explored: the shortest text and the longest
TextLengths == {1, MaxChars}

ParseIdle ==
  /\ script = <<>>
  /\ chunks = <<>>
  /\ current_speaker = <<"Default">>
  /\ buffer = <<>>
  /\ ppc = "off"

Init ==
  /\ \E n \in 1..MaxKeys : api_keys = Pool(n)
  /\ max_retries \in 1..MaxRetriesBound
  /\ retry_failed_calls \in BOOLEAN
  /\ current_index = 0
  /\ file \in InitialFiles
  /\ credits_log = LoadCreditsLog(file, api_keys)
  /\ pc = "idle"
  /\ current_attempt = 0
  /\ hdr_key = NoKey
  /\ text_len = 0
  /\ call_result = "none"
  /\ clock = 0
  /\ issued = <<>>
  /\ last_used = NoKey
  /\ attempts = 0
  /\ sleeps = 0
  /\ last_outcome = "none"
  /\ call_start = [log |-> credits_log, file |-> file]
  /\ completed = <<>>
  /\ run_start_file = file
  /\ ParseIdle
  /\ FitIdle
  /\ GenIdle
  /\ SharedIdle

config == <<api_keys, max_retries, retry_failed_calls>>

(***************************************************************************)
(* SpeechSynthesizer.synthesize calls make_api_call with fresh headers.    *)
(***************************************************************************)
Synthesize ==
  /\ pc = "idle"
  /\ clock < MaxCalls
  /\ \E n \in TextLengths : text_len' = n
  /\ clock' = clock + 1
  /\ pc' = "attempt"
  /\ current_attempt' = 0
  /\ hdr_key' = NoKey
  /\ attempts' = 0
  /\ sleeps' = 0
  /\ last_outcome' = "none"
  /\ call_result' = "none"
  /\ call_start' = [log |-> credits_log, file |-> file]
  /\ UNCHANGED <<config, current_index, credits_log, file, issued,
                 last_used, completed, run_start_file, nonPoolVars>>

(***************************************************************************)
(* One iteration of make_api_call's loop.  The key is taken from the       *)
(* headers, or from get_next_api_key when the headers have none.           *)
(***************************************************************************)
NeedsKey == hdr_key = NoKey

\* headers["xi-api-key"] when the request is made
RequestKey == IF NeedsKey THEN NextApiKey(api_keys, current_index) ELSE hdr_key

\* self.current_index when the request is made
RequestIndex == IF NeedsKey THEN NextIndex(api_keys, current_index) ELSE current_index

\* the keys get_next_api_key has returned when the request is made
RequestIssued == IF NeedsKey THEN Append(issued, RequestKey) ELSE issued

\* a loop that allows one attempt too many
InLoopOffByOne == pc = "attempt" /\ current_attempt <= max_retries

\* while current_attempt < self.max_retries
InLoop == pc = "attempt" /\ current_attempt < max_retries

\* status 200: return response, headers["xi-api-key"]
AttemptOk ==
  /\ InLoop
  /\ hdr_key' = RequestKey
  /\ current_index' = RequestIndex
  /\ issued' = RequestIssued
  /\ last_used' = RequestKey
  /\ attempts' = attempts + 1
  /\ last_outcome' = "ok"
  /\ call_result' = "ok"
  /\ pc' = "log"
  /\ UNCHANGED <<config, sleeps, credits_log, file, current_attempt, text_len, clock,
                 call_start, completed, run_start_file, nonPoolVars>>

\* a 429/401 branch that retries without rotating the key
AttemptAuthNoRotate ==
  /\ InLoop
  /\ hdr_key' = RequestKey
  /\ current_index' = RequestIndex
  /\ issued' = RequestIssued
  /\ last_used' = RequestKey
  /\ attempts' = attempts + 1
  /\ last_outcome' = "auth"
  /\ current_attempt' = current_attempt + 1
  /\ sleeps' = sleeps + 1
  /\ UNCHANGED <<config, credits_log, file, pc, text_len, call_result, clock,
                 call_start, completed, run_start_file, nonPoolVars>>

\* a 429/401 branch that rotates and retries without counting or waiting
AttemptAuthFree ==
  /\ InLoop
  /\ hdr_key' = NextApiKey(api_keys, RequestIndex)
  /\ current_index' = NextIndex(api_keys, RequestIndex)
  /\ issued' = Append(RequestIssued, NextApiKey(api_keys, RequestIndex))
  /\ last_used' = RequestKey
  /\ attempts' = attempts + 1
  /\ last_outcome' = "auth"
  /\ UNCHANGED <<config, credits_log, file, pc, text_len, call_result, clock, sleeps,
                 current_attempt, call_start, completed, run_start_file, nonPoolVars>>

\* status 429 or 401: rotate the key, count the attempt, retry
AttemptAuth ==
  /\ InLoop
  /\ hdr_key' = NextApiKey(api_keys, RequestIndex)
  /\ current_index' = NextIndex(api_keys, RequestIndex)
  /\ issued' = Append(RequestIssued, NextApiKey(api_keys, RequestIndex))
  /\ last_used' = RequestKey
  /\ attempts' = attempts + 1
  /\ last_outcome' = "auth"
  /\ current_attempt' = current_attempt + 1
  /\ sleeps' = sleeps + 1
  /\ UNCHANGED <<config, credits_log, file, pc, text_len, call_result, clock,
                 call_start, completed, run_start_file, nonPoolVars>>

\* a failure branch that rotates the key as the 429/401 branch does
FailRotates(kind) ==
  /\ InLoop
  /\ hdr_key' = NextApiKey(api_keys, RequestIndex)
  /\ current_index' = NextIndex(api_keys, RequestIndex)
  /\ issued' = Append(RequestIssued, NextApiKey(api_keys, RequestIndex))
  /\ last_used' = RequestKey
  /\ attempts' = attempts + 1
  /\ last_outcome' = kind
  /\ IF retry_failed_calls
       THEN /\ current_attempt' = current_attempt + 1
            /\ sleeps' = sleeps + 1
            /\ UNCHANGED <<pc, call_result>>
       ELSE /\ pc' = "idle"
            /\ call_result' = "fail"
            /\ UNCHANGED <<current_attempt, sleeps>>
  /\ UNCHANGED <<config, credits_log, file, text_len, clock,
                 call_start, completed, run_start_file, nonPoolVars>>

\* a failure branch that retries whatever retry_failed_calls says
FailAlwaysRetries(kind) ==
  /\ InLoop
  /\ hdr_key' = RequestKey
  /\ current_index' = RequestIndex
  /\ issued' = RequestIssued
  /\ last_used' = RequestKey
  /\ attempts' = attempts + 1
  /\ last_outcome' = kind
  /\ current_attempt' = current_attempt + 1
  /\ sleeps' = sleeps + 1
  /\ UNCHANGED <<config, credits_log, file, pc, text_len, call_result, clock,
                 call_start, completed, run_start_file, nonPoolVars>>

\* what a failure other than 429/401 does: give up at once when
\* retry_failed_calls is off, else count the attempt and retry with the
\* same headers
FailNoRotate(kind) ==
  /\ InLoop
  /\ hdr_key' = RequestKey
  /\ current_index' = RequestIndex
  /\ issued' = RequestIssued
  /\ last_used' = RequestKey
  /\ attempts' = attempts + 1
  /\ last_outcome' = kind
  /\ IF retry_failed_calls
       THEN /\ current_attempt' = current_attempt + 1
            /\ sleeps' = sleeps + 1
            /\ UNCHANGED <<pc, call_result>>
       ELSE /\ pc' = "idle"
            /\ call_result' = "fail"
            /\ UNCHANGED <<current_attempt, sleeps>>
  /\ UNCHANGED <<config, credits_log, file, text_len, clock, call_start, completed, run_start_file, nonPoolVars>>

\* any other status code
AttemptOther == FailNoRotate("other")

\* requests raised an exception
AttemptException == FailNoRotate("exc")

\* the loop ends: return None, headers.get("xi-api-key"); synthesize returns None
Exhausted ==
  /\ pc = "attempt"
  /\ ~InLoop
  /\ pc' = "idle"
  /\ call_result' = "fail"
  /\ UNCHANGED <<config, sleeps, current_index, credits_log, file, current_attempt,
                 hdr_key, text_len, clock, issued, last_used,
                 attempts, last_outcome,
                 call_start, completed, run_start_file, nonPoolVars>>

(***************************************************************************)
(* synthesize on a response: log_credit_usage(api_key, len(text),          *)
(* len(text), "speech_synthesis").  _save_credits_log opens the file with  *)
(* mode 'w', which empties it, and json.dump then writes the whole ledger. *)
(***************************************************************************)
\* char_count = len(text); credits_used = char_count
CreditsFor(char_count) == char_count

LogAndOpen ==
  /\ pc = "log"
  /\ credits_log' = LogCreditUsage(credits_log, hdr_key, text_len,
                                   CreditsFor(text_len), "speech_synthesis", clock)
  /\ file' = PartialFile
  /\ pc' = "saving"
  /\ UNCHANGED <<config, sleeps, current_index, current_attempt, hdr_key, text_len,
                 call_result, clock, issued, last_used,
                 attempts, last_outcome,
                 call_start, completed, run_start_file, nonPoolVars>>

\* a save that writes the ledger as it was before the record was appended
SavedFileStale(log) == ValidFile(call_start.log)

\* what json.dump and the close of the file leave on disk
SavedFile(log) == ValidFile(log)

DumpAndReturn ==
  /\ pc = "saving"
  /\ file' = SavedFile(credits_log)
  /\ completed' = Append(completed,
                    <<KeyId(hdr_key),
                      CallRecord(clock, "speech_synthesis", text_len, CreditsFor(text_len))>>)
  /\ pc' = "idle"
  /\ UNCHANGED <<config, sleeps, current_index, credits_log, current_attempt, hdr_key,
                 text_len, call_result, clock, issued, last_used,
                 attempts, last_outcome,
                 call_start, run_start_file, nonPoolVars>>

(***************************************************************************)
(* The process is killed at any point; the next run constructs a new       *)
(* ApiKeyManager, which loads the ledger from the file.                    *)
(***************************************************************************)
Crash ==
  /\ pc # "crashed"
  /\ pc' = "crashed"
  /\ UNCHANGED <<config, sleeps, current_index, credits_log, file, current_attempt,
                 hdr_key, text_len, call_result, clock, issued, last_used,
                 attempts, last_outcome,
                 call_start, completed, run_start_file, nonPoolVars>>

Restart ==
  /\ pc = "crashed"
  /\ current_index' = 0
  /\ credits_log' = LoadCreditsLog(file, api_keys)
  /\ pc' = "loaded"
  /\ current_attempt' = 0
  /\ hdr_key' = NoKey
  /\ text_len' = 0
  /\ call_result' = "none"
  /\ issued' = <<>>
  /\ last_used' = NoKey
  /\ attempts' = 0
  /\ sleeps' = 0
  /\ last_outcome' = "none"
  /\ call_start' = [log |-> credits_log', file |-> file]
  /\ run_start_file' = file
  /\ UNCHANGED <<config, file, clock, completed, nonPoolVars>>

\* the new run reaches its first chunk
Resume ==
  /\ pc = "loaded"
  /\ pc' = "idle"
  /\ UNCHANGED <<config, sleeps, current_index, credits_log, file, current_attempt,
                 hdr_key, text_len, call_result, clock, issued, last_used,
                 attempts, last_outcome, call_start, completed, run_start_file, nonPoolVars>>

Next ==
  \/ Synthesize
  \/ AttemptOk
  \/ AttemptAuth
  \/ AttemptOther
  \/ AttemptException
  \/ Exhausted
  \/ LogAndOpen
  \/ DumpAndReturn
  \/ Crash
  \/ Restart
  \/ Resume

Spec == Init /\ [][Next]_vars

(***************************************************************************)
(* ScriptParser.parse.  A string is the sequence of its tokens: a space    *)
(* " ", a closing bracket "]", a tag opener ("[SPEAKER:", "[SFX:") or a    *)
(* word, which holds no space and no bracket.                              *)
(***************************************************************************)
RECURSIVE LStrip(_)
LStrip(str) == IF str # <<>> /\ str[1] = " " THEN LStrip(Tail(str)) ELSE str

RECURSIVE RStrip(_)
RStrip(str) ==
  IF str # <<>> /\ str[Len(str)] = " "
    THEN RStrip(SubSeq(str, 1, Len(str) - 1))
    ELSE str

\* str.strip()
Strip(str) == RStrip(LStrip(str))

\* the position of the first "]" after the first token, 0 when there is none
FirstClose(line) ==
  IF \E i \in 2..Len(line) : line[i] = "]"
    THEN CHOOSE i \in 2..Len(line) :
           line[i] = "]" /\ \A j \in 2..(i - 1) : line[j] # "]"
    ELSE 0

\* a re.search: the tag anywhere in the line
TagSearch(opener, line) ==
  \E i \in DOMAIN line :
    /\ line[i] = opener
    /\ \E j \in (i + 2)..Len(line) : line[j] = "]"

\* re.match(r'\[TAG:\s*([^\]]+)\]', line): the opener at the start of the
\* line, then at least one character other than "]", then "]"; whatever
\* follows the "]" is not looked at
TagMatch(opener, line) ==
  /\ line # <<>>
  /\ line[1] = opener
  /\ FirstClose(line) >= 3

\* match.group(1).strip()
TagGroup(line) == Strip(SubSeq(line, 2, FirstClose(line) - 1))

\* " ".join(buffer)
RECURSIVE Join(_)
Join(buf) ==
  IF buf = <<>> THEN <<>>
  ELSE IF Len(buf) = 1 THEN buf[1]
  ELSE buf[1] \o <<" ">> \o Join(Tail(buf))

DialogueChunk(speaker, text) == [type |-> "dialogue", speaker |-> speaker, text |-> text]

SfxChunk(effect) == [type |-> "sfx", effect |-> effect]

\* a flush that does not test the buffer
FlushedAlways(cs, speaker, buf) == Append(cs, DialogueChunk(speaker, Join(buf)))

\* if buffer: chunks.append(dialogue chunk of the buffer)
Flushed(cs, speaker, buf) ==
  IF buf # <<>> THEN Append(cs, DialogueChunk(speaker, Join(buf))) ELSE cs

\* the raw lines a script is made of
ScriptLines ==
  { <<>>,
    <<" ">>,
    <<"Hello">>,
    <<"World">>,
    <<"[SPEAKER:", " ", "A", "]">>,
    <<"[SPEAKER:", "B", " ", "]", " ">>,
    <<"[SPEAKER:", " ", "]">>,
    <<"[SPEAKER:", "]">>,
    <<"[SFX:", " ", "door", "]">>,
    <<" ", "[SFX:", "wind", "]">>,
    <<"[SFX:", " ", "door">>,
    <<"Hello", " ", "[SFX:", " ", "door", "]">>,
    <<"World", " ", "[SPEAKER:", " ", "B", "]">>,
    <<"[SFX:", " ", "door", "]", " ", "World">> }

InitParse ==
  /\ api_keys = Pool(1)
  /\ max_retries = 1
  /\ retry_failed_calls = TRUE
  /\ current_index = 0
  /\ file = MissingFile
  /\ credits_log = LoadCreditsLog(file, api_keys)
  /\ pc = "off"
  /\ current_attempt = 0
  /\ hdr_key = NoKey
  /\ text_len = 0
  /\ call_result = "none"
  /\ clock = 0
  /\ issued = <<>>
  /\ last_used = NoKey
  /\ attempts = 0
  /\ sleeps = 0
  /\ last_outcome = "none"
  /\ call_start = [log |-> credits_log, file |-> file]
  /\ completed = <<>>
  /\ run_start_file = file
  /\ script = <<>>
  /\ chunks = <<>>
  /\ current_speaker = <<"Default">>
  /\ buffer = <<>>
  /\ ppc = "lines"
  /\ FitIdle
  /\ GenIdle
  /\ SharedIdle

\* the loop reads one more line of the file
ReadLine(raw) ==
  /\ ppc = "lines"
  /\ Len(script) < MaxLines
  /\ script' = Append(script, raw)

\* if not line: continue
ParseBlank ==
  \E raw \in ScriptLines :
    /\ ReadLine(raw)
    /\ Strip(raw) = <<>>
    /\ UNCHANGED <<chunks, current_speaker, buffer, ppc, nonParseVars>>

\* a speaker branch that sets the speaker before it flushes
ParseSpeakerEarly ==
  \E raw \in ScriptLines :
    LET line == Strip(raw) IN
    /\ ReadLine(raw)
    /\ line # <<>>
    /\ TagMatch("[SPEAKER:", line)
    /\ chunks' = Flushed(chunks, TagGroup(line), buffer)
    /\ buffer' = <<>>
    /\ current_speaker' = TagGroup(line)
    /\ UNCHANGED <<ppc, nonParseVars>>

\* a speaker tag: flush the buffer under the previous speaker, set the speaker
ParseSpeaker ==
  \E raw \in ScriptLines :
    LET line == Strip(raw) IN
    /\ ReadLine(raw)
    /\ line # <<>>
    /\ TagMatch("[SPEAKER:", line)
    /\ chunks' = Flushed(chunks, current_speaker, buffer)
    /\ buffer' = <<>>
    /\ current_speaker' = TagGroup(line)
    /\ UNCHANGED <<ppc, nonParseVars>>

\* an SFX branch that emits the effect and leaves the buffer for later
ParseSfxNoFlush ==
  \E raw \in ScriptLines :
    LET line == Strip(raw) IN
    /\ ReadLine(raw)
    /\ line # <<>>
    /\ ~TagMatch("[SPEAKER:", line)
    /\ TagMatch("[SFX:", line)
    /\ chunks' = Append(chunks, SfxChunk(TagGroup(line)))
    /\ UNCHANGED <<buffer, current_speaker, ppc, nonParseVars>>

\* an SFX tag: flush the buffer under the current speaker, emit the effect
ParseSfx ==
  \E raw \in ScriptLines :
    LET line == Strip(raw) IN
    /\ ReadLine(raw)
    /\ line # <<>>
    /\ ~TagMatch("[SPEAKER:", line)
    /\ TagMatch("[SFX:", line)
    /\ chunks' = Append(Flushed(chunks, current_speaker, buffer),
                        SfxChunk(TagGroup(line)))
    /\ buffer' = <<>>
    /\ UNCHANGED <<current_speaker, ppc, nonParseVars>>

\* any other line: buffer.append(line)
ParseText ==
  \E raw \in ScriptLines :
    LET line == Strip(raw) IN
    /\ ReadLine(raw)
    /\ line # <<>>
    /\ ~TagMatch("[SPEAKER:", line)
    /\ ~TagMatch("[SFX:", line)
    /\ buffer' = Append(buffer, line)
    /\ UNCHANGED <<chunks, current_speaker, ppc, nonParseVars>>

\* the end of the file: flush the buffer, return chunks
ParseEnd ==
  /\ ppc = "lines"
  /\ chunks' = Flushed(chunks, current_speaker, buffer)
  /\ ppc' = "done"
  /\ UNCHANGED <<script, current_speaker, buffer, nonParseVars>>

NextParse ==
  \/ ParseBlank
  \/ ParseSpeaker
  \/ ParseSfx
  \/ ParseText
  \/ ParseEnd

SpecParse == InitParse /\ [][NextParse]_vars

(***************************************************************************)
(* The duration fitting of generate_sfx, applied to one clip.              *)
(***************************************************************************)
\* the ApiKeyManager of a specification that makes no API call
PoolOff ==
  /\ api_keys = Pool(1)
  /\ max_retries = 1
  /\ retry_failed_calls = TRUE
  /\ current_index = 0
  /\ file = MissingFile
  /\ credits_log = LoadCreditsLog(file, api_keys)
  /\ pc = "off"
  /\ current_attempt = 0
  /\ hdr_key = NoKey
  /\ text_len = 0
  /\ call_result = "none"
  /\ clock = 0
  /\ issued = <<>>
  /\ last_used = NoKey
  /\ attempts = 0
  /\ sleeps = 0
  /\ last_outcome = "none"
  /\ call_start = [log |-> credits_log, file |-> file]
  /\ completed = <<>>
  /\ run_start_file = file

\* len(sfx) of the decoded response: short clips and the clips of the examples
ClipDurations == (1..MaxClipMs) \cup {1000, 4000}

\* duration_ms: short targets and the targets of the examples
TargetDurations == (1..MaxClipMs) \cup {2000, 2500}

\* sfx = AudioSegment.from_mp3(temp_file) - self.volume_reduction
DecodedSfx(i, d, volume_reduction) ==
  WithGain(<<Piece(<<"sfx", i>>, 0, d, 0)>>, 0 - volume_reduction)

InitFit ==
  /\ PoolOff
  /\ ParseIdle
  /\ \E d \in ClipDurations :
       /\ fit_clip = DecodedSfx(1, d, DefaultConfig.volume_reduction)
       /\ fit_target \in {t \in TargetDurations : t \div d < MaxTiles}
  /\ fit_out = <<>>
  /\ fit_pc = "fit"
  /\ GenIdle
  /\ SharedIdle

Fitted ==
  /\ fit_pc = "fit"
  /\ fit_out' = FitDuration(fit_clip, fit_target)
  /\ fit_pc' = "done"
  /\ UNCHANGED <<fit_clip, fit_target, nonFitVars>>

\* if len(sfx) > duration_ms: sfx = sfx[:duration_ms]
FitTrim == Dur(fit_clip) > fit_target /\ Fitted

\* elif len(sfx) < duration_ms: loop the clip, then cut it
FitLoop == Dur(fit_clip) < fit_target /\ Fitted

\* neither: the clip is kept
FitKeep == Dur(fit_clip) = fit_target /\ Fitted

NextFit ==
  \/ FitTrim
  \/ FitLoop
  \/ FitKeep

SpecFit == InitFit /\ [][NextFit]_vars

(***************************************************************************)
(* main and PodcastGenerator.generate.  An API call is taken by what it    *)
(* gives back: a clip, or nothing after its retries.                       *)
(***************************************************************************)
\* len(podcast) above which an effect is laid over the tail
OverlapWindow == 2000

\* the silence put before a dialogue clip
PreRoll == 300

\* the settings of podcast_generator.py, which reads no configuration
V1Settings == DefaultConfig

\* configurations of podcast_generator_v2.py
GenConfigs ==
  { DefaultConfig,
    [DefaultConfig EXCEPT !.intro_silence = 2500, !.default_duration = 1500,
                          !.normalize_audio = FALSE],
    [DefaultConfig EXCEPT !.sfx_overlap = FALSE],
    [DefaultConfig EXCEPT !.intro_silence = 0, !.silence_between_chunks = 0] }

\* the script files
GenScripts ==
  { <<>>,
    << <<" ">>, <<>> >>,
    << <<"[SPEAKER:", " ", "A", "]">> >>,
    << <<"Hello">>, <<"[SFX:", " ", "door", "]">> >>,
    << <<"[SFX:", " ", "door", "]">>, <<"Hello">> >>,
    << <<"[SFX:", " ", "zap", "]">>, <<"Hello">>, <<"World">> >>,
    << <<"[SFX:", " ", "Door", "]">>, <<"[SFX:", " ", "door", "]">> >>,
    << <<"Hello">>, <<"[SFX:", " ", "door", "]">>, <<"[SFX:", " ", "door", "]">> >>,
    << <<"[SPEAKER:", " ", "A", "]">>, <<"Hello">>, <<"[SFX:", " ", "door", "]">>,
       <<"[SPEAKER:", " ", "B", "]">>, <<"World">> >> }

\* the effects with a prompt (v2) or a file in the sfx directory (v1)
SfxPrompts == { <<"door">>, <<"wind">> }

\* len(audio) of a synthesized dialogue clip
SpeechDurations == {1000, 2600}

\* len(sfx) of a decoded effect
SfxDurations == {1000, 4000}

\* ScriptParser.parse over all the lines of a file
RECURSIVE ParseLines(_, _, _, _)
ParseLines(lines, cs, speaker, buf) ==
  IF lines = <<>> THEN Flushed(cs, speaker, buf)
  ELSE LET line == Strip(Head(lines))
           rest == Tail(lines)
       IN  IF line = <<>> THEN ParseLines(rest, cs, speaker, buf)
           ELSE IF TagMatch("[SPEAKER:", line)
             THEN ParseLines(rest, Flushed(cs, speaker, buf), TagGroup(line), <<>>)
           ELSE IF TagMatch("[SFX:", line)
             THEN ParseLines(rest, Append(Flushed(cs, speaker, buf), SfxChunk(TagGroup(line))),
                             speaker, <<>>)
           ELSE ParseLines(rest, cs, speaker, Append(buf, line))

Parsed(lines) == ParseLines(lines, <<>>, <<"Default">>, <<>>)

\* effect_name.lower()
Lower(effect) == IF effect = <<"Door">> THEN <<"door">> ELSE effect

\* sfx_prompts[effect_key] of the default configuration
SfxPrompt(effect_key) ==
  IF effect_key = <<"door">>
    THEN <<"Old", " ", "wooden", " ", "door", " ", "creaking", " ", "open">>
    ELSE <<"Howling", " ", "wind", " ", "through", " ", "narrow", " ", "streets">>

\* enhanced_prompt = f"[SOUND EFFECT ONLY, NO SPEECH]: {prompt}"
EnhancedPrompt(prompt) == <<"[SOUND EFFECT ONLY, NO SPEECH]:", " ">> \o prompt

\* a count of the prompt without its prefix
SfxCharCountOfPrompt(prompt) == Len(prompt)

\* char_count = len(enhanced_prompt)
SfxCharCount(prompt) == Len(EnhancedPrompt(prompt))

\* char_count = len(text)
SpeechCharCount(text) == Len(text)

\* the result of a make_api_call: whether a response came back, the key
\* returned with it, the cursor it leaves, the keys get_next_api_key gave
\* and the key of each outbound attempt
CallResult(response, api_key, index, got, used) ==
  [response |-> response, api_key |-> api_key, index |-> index, got |-> got, used |-> used]

\* the loop of make_api_call from attempt current_attempt on, hdr being
\* headers["xi-api-key"] (NoKey when absent): every way it can end
RECURSIVE ApiCallResults(_, _, _, _, _, _, _, _)
ApiCallResults(keys, maxr, retry, idx, hdr, attempt, got, used) ==
  IF attempt >= maxr THEN { CallResult(FALSE, hdr, idx, got, used) }
  ELSE LET needs == hdr = NoKey
           key == IF needs THEN NextApiKey(keys, idx) ELSE hdr
           idx1 == IF needs THEN NextIndex(keys, idx) ELSE idx
           got1 == IF needs THEN Append(got, key) ELSE got
           used1 == Append(used, key)
           rotated == NextApiKey(keys, idx1)
       IN  { CallResult(TRUE, key, idx1, got1, used1) }
           \cup ApiCallResults(keys, maxr, retry, NextIndex(keys, idx1), rotated,
                               attempt + 1, Append(got1, rotated), used1)
           \cup (IF retry
                   THEN ApiCallResults(keys, maxr, retry, idx1, key, attempt + 1, got1, used1)
                   ELSE { CallResult(FALSE, key, idx1, got1, used1) })

\* a make_api_call that takes a key from the pool and drops it before the loop
MakeApiCallDropsKey(keys, maxr, retry, idx) ==
  ApiCallResults(keys, maxr, retry, NextIndex(keys, idx), NoKey, 0,
                 <<NextApiKey(keys, idx)>>, <<>>)

\* api_key_manager.make_api_call(url, headers, json_data): the callers pass
\* headers without a key
MakeApiCall(keys, maxr, retry, idx) ==
  ApiCallResults(keys, maxr, retry, idx, NoKey, 0, <<>>, <<>>)

\* synthesize of v1: one key from get_next_api_key, one request
PostOnce(keys, idx) ==
  { CallResult(ok, NextApiKey(keys, idx), NextIndex(keys, idx),
               <<NextApiKey(keys, idx)>>, <<NextApiKey(keys, idx)>>) : ok \in BOOLEAN }

\* no API call was made
NoCall == CallResult(FALSE, NoKey, 0, <<>>, <<>>)

\* what a step got from the provider: whether it called, the call's result,
\* data["text"], the character count it logs, the clip and the cache it leaves
Outcome(called, call, text, chars, clip, cache) ==
  [called |-> called, call |-> call, text |-> text, chars |-> chars,
   clip |-> clip, cache |-> cache]

\* what speech_synthesizer.synthesize(text, speaker) may do for chunk i;
\* the clip <<>> is None
SynthesizeResults(version, keys, maxr, retry, idx, i, text) ==
  IF Strip(text) = <<>> THEN { Outcome(FALSE, NoCall, text, 0, <<>>, <<>>) }
  ELSE LET calls == IF version = 1 THEN PostOnce(keys, idx)
                    ELSE MakeApiCall(keys, maxr, retry, idx)
           clips(r) == IF r.response
                         THEN { <<>> } \cup { <<Piece(<<"speech", i>>, 0, d, 0)>> :
                                              d \in SpeechDurations }
                         ELSE { <<>> }
       IN  UNION { { Outcome(TRUE, r, text, SpeechCharCount(text), c, <<>>) : c \in clips(r) } :
                   r \in calls }

\* a generate_sfx that forgets the clip
Uncached(cache, key, clip) == cache

\* sfx_cache[key] = clip
Cached(cache, key, clip) ==
  [k \in DOMAIN cache \cup {key} |-> IF k = key THEN clip ELSE cache[k]]

\* a generate_sfx that sends the name of an effect that has no prompt
GenerateSfxAnyEffect(cfg, cache, keys, maxr, retry, idx, i, effect) ==
  IF effect \in DOMAIN cache
    THEN { Outcome(FALSE, NoCall, <<>>, 0, cache[effect], cache) }
    ELSE { Outcome(TRUE, r, EnhancedPrompt(effect), SfxCharCount(effect), <<>>, cache) :
           r \in MakeApiCall(keys, maxr, retry, idx) }

\* a generate_sfx that remembers a failed call as an effect without a clip
GenerateSfxCachesFailure(cfg, cache, keys, maxr, retry, idx, i, effect) ==
  IF effect \in DOMAIN cache
    THEN { Outcome(FALSE, NoCall, <<>>, 0, cache[effect], cache) }
  ELSE IF Lower(effect) \notin SfxPrompts
    THEN { Outcome(FALSE, NoCall, <<>>, 0, <<>>, cache) }
  ELSE LET prompt == SfxPrompt(Lower(effect))
           fitted(d) == FitDuration(DecodedSfx(i, d, cfg.volume_reduction), cfg.default_duration)
           ends(r) == IF r.response
                        THEN { [clip |-> fitted(d), cache |-> Cached(cache, effect, fitted(d))] :
                               d \in SfxDurations }
                        ELSE { [clip |-> <<>>, cache |-> Cached(cache, effect, <<>>)] }
       IN  UNION { { Outcome(TRUE, r, EnhancedPrompt(prompt), SfxCharCount(prompt),
                             e.clip, e.cache) : e \in ends(r) } :
                   r \in MakeApiCall(keys, maxr, retry, idx) }

\* what generate_sfx(effect) of v2 may do for chunk i
GenerateSfx(cfg, cache, keys, maxr, retry, idx, i, effect) ==
  IF effect \in DOMAIN cache
    THEN { Outcome(FALSE, NoCall, <<>>, 0, cache[effect], cache) }
  ELSE IF Lower(effect) \notin SfxPrompts
    THEN { Outcome(FALSE, NoCall, <<>>, 0, <<>>, cache) }
  ELSE LET prompt == SfxPrompt(Lower(effect))
           text == EnhancedPrompt(prompt)
           fitted(d) == FitDuration(DecodedSfx(i, d, cfg.volume_reduction), cfg.default_duration)
           ends(r) == IF r.response
                        THEN { [clip |-> <<>>, cache |-> cache] } \cup
                             { [clip |-> fitted(d), cache |-> Cached(cache, effect, fitted(d))] :
                               d \in SfxDurations }
                        ELSE { [clip |-> <<>>, cache |-> cache] }
       IN  UNION { { Outcome(TRUE, r, text, SfxCharCount(prompt), e.clip, e.cache) :
                     e \in ends(r) } :
                   r \in MakeApiCall(keys, maxr, retry, idx) }

\* what get_sfx_clip(effect) of v1 may do for chunk i: the clip comes from a
\* file of the sfx directory
GetSfxClip(cfg, cache, i, effect) ==
  LET adjusted(raw) == FitDuration(WithGain(raw, 0 - cfg.volume_reduction), cfg.default_duration)
  IN  IF effect \in DOMAIN cache
        THEN { Outcome(FALSE, NoCall, <<>>, 0, adjusted(cache[effect]), cache) }
      ELSE IF Lower(effect) \notin SfxPrompts THEN { Outcome(FALSE, NoCall, <<>>, 0, <<>>, cache) }
      ELSE { Outcome(FALSE, NoCall, <<>>, 0, <<>>, cache) } \cup
           { LET raw == <<Piece(<<"sfx", i>>, 0, d, 0)>>
             IN  Outcome(FALSE, NoCall, <<>>, 0, adjusted(raw), Cached(cache, effect, raw)) :
             d \in SfxDurations }

SfxResults(version, cfg, cache, keys, maxr, retry, idx, i, effect) ==
  IF version = 1 THEN GetSfxClip(cfg, cache, i, effect)
  ELSE GenerateSfx(cfg, cache, keys, maxr, retry, idx, i, effect)

\* a test that also takes a timeline of just the window
OverlapsAtWindow(cfg, length) == cfg.sfx_overlap /\ length >= OverlapWindow

\* sfx_overlap and len(podcast) > 2000 (v1 has no switch: V1Settings has it on)
Overlaps(cfg, length) == cfg.sfx_overlap /\ length > OverlapWindow

\* an overlay that mixes the effect from the start of the timeline
OverlappedFromStart(audio, sfx_clip) == Overlay(audio, sfx_clip)

\* new_segment + overlap_segment.overlay(sfx_clip cut to the overlap segment)
Overlapped(audio, sfx_clip) ==
  LET overlap_point == Dur(audio) - OverlapWindow
      new_segment == Slice(audio, 0, overlap_point)
      overlap_segment == Slice(audio, overlap_point, Dur(audio))
      cut == IF Dur(sfx_clip) > Dur(overlap_segment)
               THEN Slice(sfx_clip, 0, Dur(overlap_segment)) ELSE sfx_clip
  IN  new_segment \o Overlay(overlap_segment, cut)

\* an end of iteration that puts the pre-roll before the gap
WithGapAndPreRoll(audio, cfg) == audio \o Silent(PreRoll) \o Silent(cfg.silence_between_chunks)

\* podcast += AudioSegment.silent(duration=self.silence_between_chunks)
WithGap(audio, cfg) == audio \o Silent(cfg.silence_between_chunks)

\* _load_credits_log of v1: the file's ledger, else an empty list for each key
LoadCreditsLogV1(f, keys) ==
  IF f.state = "valid"
    THEN f.data
    ELSE [id \in {KeyId(keys[i]) : i \in DOMAIN keys} |-> <<>>]

\* the record log_credit_usage of v1 appends
CallRecordV1(ts, character_count, credits_used) ==
  [timestamp |-> ts, character_count |-> character_count, credits_used |-> credits_used]

\* log_credit_usage of v1: the ledger maps a key id to the list of its records
LogCreditUsageV1(log, api_key, character_count, credits_used, ts) ==
  LET key_id == KeyId(api_key)
      with == IF key_id \in DOMAIN log THEN log ELSE (key_id :> <<>>) @@ log
  IN  [with EXCEPT ![key_id] = Append(@, CallRecordV1(ts, character_count, credits_used))]

\* a test that lets an empty pool through
NoKeysNever(keys) == FALSE

\* if not self.api_keys: args.keys and ELEVENLABS_API_KEYS are both unset
NoKeys(keys) == keys = <<>>

\* APIRotation.max_retries of the runs
GenRetries == {1, 2}

\* the pool and the APIRotation settings of the runs that look at the timeline
GenSetups == { [keys |-> Pool(n), maxr |-> 1, retry |-> TRUE] : n \in 0..1 }

\* the pool and the APIRotation settings of the runs that look at the calls
CallSetups ==
  { [keys |-> Pool(n), maxr |-> m, retry |-> r] :
    n \in 0..MaxKeys, m \in GenRetries, r \in BOOLEAN }

\* the state before main runs: the configuration, the keys and the script
Started(setups, configs, entries) ==
  /\ \E p \in setups :
       /\ api_keys = p.keys
       /\ max_retries = p.maxr
       /\ retry_failed_calls = p.retry
  /\ current_index = 0
  /\ file = MissingFile
  /\ gen_version \in {1, 2}
  /\ credits_log = (IF gen_version = 1 THEN LoadCreditsLogV1(file, api_keys)
                    ELSE LoadCreditsLog(file, api_keys))
  /\ pc = "off"
  /\ current_attempt = 0
  /\ hdr_key = NoKey
  /\ text_len = 0
  /\ call_result = "none"
  /\ clock = 0
  /\ issued = <<>>
  /\ last_used = NoKey
  /\ attempts = 0
  /\ sleeps = 0
  /\ last_outcome = "none"
  /\ call_start = [log |-> credits_log, file |-> file]
  /\ completed = <<>>
  /\ run_start_file = file
  /\ ParseIdle
  /\ FitIdle
  /\ SharedIdle
  /\ gen_cfg \in (IF gen_version = 1 THEN {V1Settings} ELSE configs)
  /\ gen_script \in GenScripts
  /\ gen_chunks = <<>>
  /\ gen_idx = 0
  /\ podcast = <<>>
  /\ sfx_cache = <<>>
  /\ gen_pc \in (IF gen_version = 2 /\ api_keys # <<>> THEN entries ELSE {"main"})
  /\ exit_status = <<>>
  /\ handled = <<>>
  /\ budget = 0
  /\ overlaid = FALSE
  /\ last_clip = <<>>
  /\ sent = <<>>
  /\ console = <<>>

\* the script is run from the command line
InitGen == Started(GenSetups, GenConfigs, {"main"})

\* the script is run from the command line or from the UI
InitCalls == Started(CallSetups, {DefaultConfig}, {"ui", "main"})

\* generate_podcast of the UI: the command line of podcast_generator_v2.py,
\* with -k and the keys as typed, is written to the console and started
UiGeneratePodcast ==
  /\ gen_pc = "ui"
  /\ api_keys # <<>>
  /\ console' = Append(console, [line |-> "Command", shown |-> api_keys])
  /\ gen_pc' = "main"
  /\ UNCHANGED <<gen_version, gen_cfg, gen_script, gen_chunks, gen_idx, podcast,
                 sfx_cache, exit_status, handled, budget, overlaid, last_clip, sent,
                 nonGenVars>>

\* main's except: the status of a run that raised
Raised(error) ==
  /\ gen_pc = "main"
  /\ gen_pc' = error
  /\ exit_status' = <<1>>
  /\ UNCHANGED <<gen_version, gen_cfg, gen_script, gen_chunks, gen_idx, podcast,
                 sfx_cache, handled, budget, overlaid, last_clip, sent, console, nonGenVars>>

\* ApiKeyManager.__init__ raises ValueError("No API keys provided")
ConfigFails == NoKeys(api_keys) /\ Raised("config_error")

\* parse cannot read the script and raises
ParseFails == ~NoKeys(api_keys) /\ Raised("parse_error")

\* a generate that exports the empty timeline of a script without chunks
NoContentExports ==
  /\ gen_pc = "main"
  /\ ~NoKeys(api_keys)
  /\ Parsed(gen_script) = <<>>
  /\ gen_chunks' = Parsed(gen_script)
  /\ gen_pc' = "export"
  /\ UNCHANGED <<gen_version, gen_cfg, gen_script, gen_idx, podcast, sfx_cache,
                 exit_status, handled, budget, overlaid, last_clip, sent, console, nonGenVars>>

\* if not chunks: return False
NoContent ==
  /\ gen_pc = "main"
  /\ ~NoKeys(api_keys)
  /\ Parsed(gen_script) = <<>>
  /\ gen_chunks' = Parsed(gen_script)
  /\ gen_pc' = "no_content"
  /\ UNCHANGED <<gen_version, gen_cfg, gen_script, gen_idx, podcast, sfx_cache,
                 exit_status, handled, budget, overlaid, last_clip, sent, console, nonGenVars>>

\* podcast = AudioSegment.silent(duration=self.intro_silence)
StartLoop ==
  /\ gen_pc = "main"
  /\ ~NoKeys(api_keys)
  /\ Parsed(gen_script) # <<>>
  /\ gen_chunks' = Parsed(gen_script)
  /\ podcast' = Silent(gen_cfg.intro_silence)
  /\ budget' = gen_cfg.intro_silence
  /\ gen_pc' = "loop"
  /\ UNCHANGED <<gen_version, gen_cfg, gen_script, gen_idx, sfx_cache,
                 exit_status, handled, overlaid, last_clip, sent, console, nonGenVars>>

\* the loop is at a chunk of this type
AtChunk(type) ==
  /\ gen_pc = "loop"
  /\ gen_idx < Len(gen_chunks)
  /\ gen_chunks[gen_idx + 1].type = type

\* the iteration ends: the gap is added, the loop goes to the next chunk
NextChunk(audio, clip, counted, mixed) ==
  /\ podcast' = WithGap(audio, gen_cfg)
  /\ gen_idx' = gen_idx + 1
  /\ handled' = Append(handled, gen_idx + 1)
  /\ budget' = budget + counted + gen_cfg.silence_between_chunks
  /\ overlaid' = (overlaid \/ mixed)
  /\ last_clip' = clip
  /\ UNCHANGED <<gen_version, gen_cfg, gen_script, gen_chunks, gen_pc, exit_status,
                 parseVars, fitVars, sharedVars>>

\* a failed synthesis that makes generate return False
DialogueSkippedAborts ==
  /\ AtChunk("dialogue")
  /\ gen_pc' = "no_content"
  /\ UNCHANGED <<gen_version, gen_cfg, gen_script, gen_chunks, gen_idx, podcast, sfx_cache,
                 exit_status, handled, budget, overlaid, last_clip, sent, console, nonGenVars>>

\* the step made no API call
NoProviderCall == UNCHANGED <<poolVars, sent, console>>

\* log_credit_usage of the running version
Logged(log, api_key, chars, op, ts) ==
  IF gen_version = 1
    THEN LogCreditUsageV1(log, api_key, chars, CreditsFor(chars), ts)
    ELSE LogCreditUsage(log, api_key, chars, CreditsFor(chars), op, ts)

\* the record log_credit_usage of the running version appends
LoggedRecord(chars, op, ts) ==
  IF gen_version = 1
    THEN CallRecordV1(ts, chars, CreditsFor(chars))
    ELSE CallRecord(ts, op, chars, CreditsFor(chars))

\* the step made an API call: the cursor moves as the call left it; a
\* response is logged to the ledger, the ledger is saved, and v2 logs the
\* key id.  The locals of make_api_call do not outlive it.
Provided(o, op) ==
  LET r == o.call
      ts == clock + 1
      log == Logged(credits_log, r.api_key, o.chars, op, ts)
  IN  /\ current_index' = r.index
      /\ issued' = issued \o r.got
      /\ clock' = ts
      /\ sent' = Append(sent, [chunk |-> gen_idx + 1, text |-> o.text, op |-> op,
                               response |-> r.response, api_key |-> r.api_key,
                               used |-> r.used, cursor |-> current_index,
                               index |-> r.index])
      /\ IF r.response
           THEN /\ credits_log' = log
                /\ file' = SavedFile(log)
                /\ completed' = Append(completed,
                                  <<KeyId(r.api_key), LoggedRecord(o.chars, op, ts)>>)
                /\ console' = IF gen_version = 1 THEN console
                              ELSE Append(console, [line |-> "Logged",
                                                    shown |-> <<KeyId(r.api_key)>>])
           ELSE UNCHANGED <<credits_log, file, completed, console>>
      /\ UNCHANGED <<config, pc, current_attempt, hdr_key, text_len, call_result,
                     last_used, attempts, sleeps, last_outcome, call_start, run_start_file>>

ProviderEffect(o, op) == IF o.called THEN Provided(o, op) ELSE NoProviderCall

\* synthesize at the chunk of the loop
Synthesized ==
  SynthesizeResults(gen_version, api_keys, max_retries, retry_failed_calls, current_index,
                    gen_idx + 1, gen_chunks[gen_idx + 1].text)

\* generate_sfx (v2) or get_sfx_clip (v1) at the chunk of the loop
SfxGot ==
  SfxResults(gen_version, gen_cfg, sfx_cache, api_keys, max_retries, retry_failed_calls,
             current_index, gen_idx + 1, gen_chunks[gen_idx + 1].effect)

\* synthesize returned None: nothing but the gap is added
DialogueSkipped ==
  /\ AtChunk("dialogue")
  /\ \E o \in Synthesized :
       /\ o.clip = <<>>
       /\ ProviderEffect(o, "speech_synthesis")
       /\ NextChunk(podcast, o.clip, 0, FALSE)
  /\ UNCHANGED sfx_cache

\* a dialogue step that leaves the pre-roll out
DialogueSpokenNoPreRoll ==
  /\ AtChunk("dialogue")
  /\ \E o \in Synthesized :
       /\ o.clip # <<>>
       /\ ProviderEffect(o, "speech_synthesis")
       /\ NextChunk(podcast \o o.clip, o.clip, PreRoll + Dur(o.clip), FALSE)
  /\ UNCHANGED sfx_cache

\* if audio: podcast += silent(300); podcast += audio
DialogueSpoken ==
  /\ AtChunk("dialogue")
  /\ \E o \in Synthesized :
       /\ o.clip # <<>>
       /\ ProviderEffect(o, "speech_synthesis")
       /\ NextChunk(podcast \o Silent(PreRoll) \o o.clip, o.clip, PreRoll + Dur(o.clip), FALSE)
  /\ UNCHANGED sfx_cache

\* a skipped effect that still gets the pre-roll
SfxSkippedPreRoll ==
  /\ AtChunk("sfx")
  /\ \E o \in SfxGot :
       /\ o.clip = <<>>
       /\ sfx_cache' = o.cache
       /\ ProviderEffect(o, "sfx_generation")
       /\ NextChunk(podcast \o Silent(PreRoll), o.clip, PreRoll, FALSE)

\* the effect gave no clip: nothing but the gap is added
SfxSkipped ==
  /\ AtChunk("sfx")
  /\ \E o \in SfxGot :
       /\ o.clip = <<>>
       /\ sfx_cache' = o.cache
       /\ ProviderEffect(o, "sfx_generation")
       /\ NextChunk(podcast, o.clip, 0, FALSE)

\* else: podcast += sfx_clip
SfxAppended ==
  /\ AtChunk("sfx")
  /\ ~Overlaps(gen_cfg, Dur(podcast))
  /\ \E o \in SfxGot :
       /\ o.clip # <<>>
       /\ sfx_cache' = o.cache
       /\ ProviderEffect(o, "sfx_generation")
       /\ NextChunk(podcast \o o.clip, o.clip, Dur(o.clip), FALSE)

\* the effect is laid over the last 2000 ms
SfxOverlapped ==
  /\ AtChunk("sfx")
  /\ Overlaps(gen_cfg, Dur(podcast))
  /\ \E o \in SfxGot :
       /\ o.clip # <<>>
       /\ sfx_cache' = o.cache
       /\ ProviderEffect(o, "sfx_generation")
       /\ NextChunk(Overlapped(podcast, o.clip), o.clip, Dur(o.clip), TRUE)

\* after the last chunk: if self.normalize_audio: podcast = normalize(podcast)
\* (v1 always normalizes: V1Settings has it on)
EndOfChunks ==
  /\ gen_pc = "loop"
  /\ gen_idx = Len(gen_chunks)
  /\ podcast' = IF gen_cfg.normalize_audio THEN Normalized(podcast) ELSE podcast
  /\ gen_pc' = "export"
  /\ UNCHANGED <<gen_version, gen_cfg, gen_script, gen_chunks, gen_idx, sfx_cache,
                 exit_status, handled, budget, overlaid, last_clip, sent, console, nonGenVars>>

\* an export that sends generate back into the loop
ExportedBack(to) ==
  /\ gen_pc = "export"
  /\ gen_pc' = "loop"
  /\ UNCHANGED <<gen_version, gen_cfg, gen_script, gen_chunks, gen_idx, podcast, sfx_cache,
                 exit_status, handled, budget, overlaid, last_clip, sent, console, nonGenVars>>

Exported(to) ==
  /\ gen_pc = "export"
  /\ gen_pc' = to
  /\ UNCHANGED <<gen_version, gen_cfg, gen_script, gen_chunks, gen_idx, podcast, sfx_cache,
                 exit_status, handled, budget, overlaid, last_clip, sent, console, nonGenVars>>

\* podcast.export(...) returned: return True
ExportOk == Exported("done")

\* podcast.export(...) raised: return False
ExportFails == Exported("export_failed")

\* main after generate returned: v2 returns 1 unless success, v1 returns 0
MainReturns ==
  /\ gen_pc \in {"done", "export_failed", "no_content"}
  /\ exit_status = <<>>
  /\ exit_status' = IF gen_version = 2 /\ gen_pc # "done" THEN <<1>> ELSE <<0>>
  /\ UNCHANGED <<gen_version, gen_cfg, gen_script, gen_chunks, gen_idx, podcast, sfx_cache,
                 gen_pc, handled, budget, overlaid, last_clip, sent, console, nonGenVars>>

NextGen ==
  \/ ConfigFails
  \/ ParseFails
  \/ NoContent
  \/ StartLoop
  \/ DialogueSkipped
  \/ DialogueSpoken
  \/ SfxSkipped
  \/ SfxAppended
  \/ SfxOverlapped
  \/ EndOfChunks
  \/ ExportOk
  \/ ExportFails
  \/ MainReturns

SpecGen == InitGen /\ [][NextGen]_vars

\* the runs with every pool, started from the command line or from the UI
NextCalls == UiGeneratePodcast \/ NextGen

SpecCalls == InitCalls /\ [][NextCalls]_vars

\* every iteration, the export and main's return take a finite time
SpecGenFair == SpecGen /\ WF_vars(NextGen)

(***************************************************************************)
(* Helpers of the properties.                                              *)
(***************************************************************************)
\* the position of a key in the pool
PosOf(api_key) == CHOOSE i \in DOMAIN api_keys : api_keys[i] = api_key

\* the key that follows api_key in cyclic pool order
Successor(api_key) == api_keys[(PosOf(api_key) % Len(api_keys)) + 1]

\* how many times x occurs in the sequence s
Count(s, x) == Cardinality({i \in DOMAIN s : s[i] = x})

IsPrefix(s, t) == Len(s) <= Len(t) /\ SubSeq(t, 1, Len(s)) = s

\* the step is an outbound attempt
AttemptStep == attempts' = attempts + 1

\* the ledger this process loaded when it started
LoadedAtStart == LoadCreditsLog(run_start_file, api_keys)

\* the process is alive and outside log_credit_usage
Stable == pc \in {"idle", "attempt", "log"}

(***************************************************************************)
(* C1.  An invoke whose every attempt fails.                               *)
(***************************************************************************)
\* C1 as stated: every invoke that ends in failure has issued exactly
\* max_retries outbound attempts, whatever the kinds of its failures.
C1_Original == call_result = "fail" => attempts = max_retries

\* C1 amended: an invoke that ends in failure returned no response; with
\* retry_failed_calls on it has issued exactly max_retries attempts; with it
\* off it ended at its first other-status or exception failure, or after
\* max_retries attempts when every failure was 401/429.
C1_Exhausts ==
  call_result = "fail" =>
    /\ last_outcome # "ok"
    /\ pc \notin {"log", "saving"}
    /\ attempts <= max_retries
    /\ retry_failed_calls => attempts = max_retries
    /\ ~retry_failed_calls =>
         \/ last_outcome \in {"other", "exc"} /\ current_attempt = attempts - 1
         \/ last_outcome = "auth" /\ attempts = max_retries

C1_Witness ==
  /\ call_result = "fail"
  /\ retry_failed_calls
  /\ max_retries = MaxRetriesBound
  /\ attempts = max_retries
  /\ last_outcome = "exc"
  /\ Len(issued) = 2

(***************************************************************************)
(* C2.  The ledger gains one record per successful call and none otherwise.*)
(***************************************************************************)
\* C2: while the attempts of a call run, and after a call that ended in
\* failure, the ledger in memory and the file are as they were when the call
\* started; a call whose max_retries-th attempt succeeds returns success; after
\* a successful call the ledger holds exactly one record more.
C2_OneRecordPerSuccess ==
  /\ pc \in {"attempt", "log"} =>
       credits_log = call_start.log /\ file = call_start.file
  /\ (pc = "idle" /\ call_result = "fail") =>
       credits_log = call_start.log /\ file = call_start.file
  /\ (attempts = max_retries /\ last_outcome = "ok") => call_result = "ok"
  /\ (pc = "idle" /\ call_result = "ok") =>
       /\ NumRecords(credits_log) = NumRecords(call_start.log) + 1
       /\ file.state = "valid"
       /\ NumRecords(file.data) = NumRecords(call_start.log) + 1

C2_Witness ==
  /\ pc = "idle"
  /\ call_result = "ok"
  /\ max_retries >= 2
  /\ attempts = max_retries
  /\ current_attempt = max_retries - 1

(***************************************************************************)
(* C3.  get_next_api_key is a round robin.                                 *)
(***************************************************************************)
\* C3: the k keys get_next_api_key has returned are the pool in cyclic order
\* from its first key, each key floor(k/n) or ceil(k/n) times, and the cursor
\* is in 0..n-1, whatever the outcomes of the attempts.
C3_RoundRobin ==
  LET n == Len(api_keys)
      k == Len(issued)
  IN  /\ current_index \in 0..(n - 1)
      /\ \A i \in 1..k : issued[i] = api_keys[((i - 1) % n) + 1]
      /\ \A j \in 1..n :
            /\ Count(issued, api_keys[j]) >= k \div n
            /\ Count(issued, api_keys[j]) <= (k + n - 1) \div n

C3_Witness ==
  /\ Len(api_keys) = 3
  /\ Len(issued) >= 7
  /\ last_outcome = "other"
  /\ call_result = "fail"

(***************************************************************************)
(* C4.  Which key an outbound attempt uses.                                *)
(***************************************************************************)
\* C4 as stated: every outbound attempt uses the key that follows, in cyclic
\* pool order, the key of the previous outbound attempt.
C4_Original ==
  [][(AttemptStep /\ last_used # NoKey) => last_used' = Successor(last_used)]_vars

\* C4 amended: the first attempt of an invoke uses the key at the cursor; an
\* attempt after a 401/429 failure uses the key that follows the failed one
\* in cyclic pool order; an attempt after any other failure uses the failed
\* key again.
C4_AttemptKey ==
  [][AttemptStep =>
       last_used' = IF attempts = 0 THEN api_keys[current_index + 1]
                    ELSE IF last_outcome = "auth" THEN Successor(last_used)
                    ELSE last_used]_vars

C4_Witness ==
  /\ Len(api_keys) = 3
  /\ clock = 2
  /\ attempts = 3
  /\ last_used = api_keys[1]
  /\ current_attempt = 3

(***************************************************************************)
(* C5.  The key after a failed attempt of the same invoke.                 *)
(***************************************************************************)
\* C5 as stated: on a pool of two or more keys, an attempt that follows a
\* failed attempt of the same invoke uses another key than the failed one.
C5_Original ==
  [][(AttemptStep /\ attempts >= 1 /\ Len(api_keys) >= 2)
       => last_used' # last_used]_vars

\* C5 amended: on a pool of two or more keys, an attempt that follows a
\* 401/429 failure of the same invoke uses another key than the failed one,
\* and one that follows an other-status or exception failure uses the same.
C5_RotateOnAuth ==
  [][(AttemptStep /\ attempts >= 1 /\ Len(api_keys) >= 2) =>
       /\ last_outcome = "auth" => last_used' # last_used
       /\ last_outcome \in {"other", "exc"} => last_used' = last_used]_vars

C5_Witness ==
  /\ Len(api_keys) >= 2
  /\ attempts = 2
  /\ last_outcome = "ok"
  /\ Len(issued) = 2
  /\ last_used = api_keys[2]

(***************************************************************************)
(* C6.  The running total of a key.                                        *)
(***************************************************************************)
\* C6: for every key id of the ledger, in memory and in the file,
\* total_credits_used is the sum of credits_used over its calls.
C6_TotalIsSum ==
  /\ \A id \in DOMAIN credits_log :
        credits_log[id].total_credits_used = SumCredits(credits_log[id].calls)
  /\ \A id \in DOMAIN file.data :
        file.data[id].total_credits_used = SumCredits(file.data[id].calls)

C6_Witness ==
  \E id \in DOMAIN file.data :
    /\ Len(file.data[id].calls) = 3
    /\ file.data[id].calls[1] = OldRecord
    /\ file.data[id].total_credits_used = 2 * MaxChars + 1

(***************************************************************************)
(* C7.  log_credit_usage saves at once.                                    *)
(***************************************************************************)
\* C7: whenever the process is outside log_credit_usage, the file is the
\* ledger in memory as soon as this run has recorded a call, and is untouched
\* before that: no record waits in memory for a later save.
C7_SavedAtOnce ==
  Stable =>
    IF NumRecords(credits_log) > NumRecords(LoadedAtStart)
      THEN file = ValidFile(credits_log)
      ELSE file = run_start_file /\ credits_log = LoadedAtStart

C7_Witness ==
  /\ pc = "idle"
  /\ call_result = "ok"
  /\ NumRecords(credits_log) = NumRecords(LoadedAtStart) + 2
  /\ file = ValidFile(credits_log)

(***************************************************************************)
(* C8.  A crash and the records of the completed calls.                    *)
(***************************************************************************)
\* C8: the ledger loaded at a start holds the record of every call whose
\* log_credit_usage had returned before.
C8_CrashKeepsCompleted ==
  pc = "loaded" =>
    \A i \in DOMAIN completed :
      /\ completed[i][1] \in DOMAIN credits_log
      /\ \E j \in DOMAIN credits_log[completed[i][1]].calls :
            credits_log[completed[i][1]].calls[j] = completed[i][2]

(***************************************************************************)
(* C9.  The ledger file is append-only across runs.                        *)
(***************************************************************************)
\* C9: whenever no save is in progress, the file holds, for every key id it
\* held when the run started, the records it held then, unchanged and in
\* the same order, before any record added since.
C9_AppendOnly ==
  pc # "saving" =>
    \A id \in DOMAIN run_start_file.data :
      /\ file.state = "valid"
      /\ id \in DOMAIN file.data
      /\ IsPrefix(run_start_file.data[id].calls, file.data[id].calls)

(***************************************************************************)
(* C10.  An SFX line.                                                      *)
(***************************************************************************)
\* the lines "[SFX: name]", with or without spaces around the name
SfxLineOf(name) ==
  { <<"[SFX:">> \o a \o <<name>> \o b \o <<"]">> : a, b \in {<<>>, <<" ">>} }

\* the step reads a line that is "[SFX: name]" once stripped
ReadsSfx(name) ==
  /\ Len(script') = Len(script) + 1
  /\ Strip(script'[Len(script')]) \in SfxLineOf(name)

\* "[SPEAKER: A]\nHello\n[SFX: door]\nWorld"
ExampleScript ==
  << <<"[SPEAKER:", " ", "A", "]">>, <<"Hello">>,
     <<"[SFX:", " ", "door", "]">>, <<"World">> >>

\* [Dialogue(A, "Hello"), Effect("door"), Dialogue(A, "World")]
ExampleChunks ==
  << DialogueChunk(<<"A">>, <<"Hello">>), SfxChunk(<<"door">>),
     DialogueChunk(<<"A">>, <<"World">>) >>

\* C10: reading a line "[SFX: name]" appends to the chunks the buffered text,
\* if any, as one dialogue chunk of the current speaker and then the effect
\* chunk of name, empties the buffer and keeps the current speaker; and the
\* example script parses to the example chunks.
C10_SfxLine ==
  /\ [][\A name \in {"door", "wind"} :
          ReadsSfx(name) =>
            /\ chunks' =
                 (IF buffer = <<>> THEN chunks
                  ELSE Append(chunks, [type |-> "dialogue",
                                       speaker |-> current_speaker,
                                       text |-> Join(buffer)]))
                   \o << [type |-> "sfx", effect |-> <<name>>] >>
            /\ buffer' = <<>>
            /\ current_speaker' = current_speaker]_vars
  /\ []((ppc = "done" /\ script = ExampleScript) => chunks = ExampleChunks)

C10_Witness ==
  /\ ppc = "done"
  /\ script = ExampleScript
  /\ chunks = ExampleChunks

(***************************************************************************)
(* C11.  No text of the script is lost.                                    *)
(***************************************************************************)
\* the line begins with a tag: an opener, a name of at least one token, "]"
BeginsWithTag(line) ==
  /\ line # <<>>
  /\ line[1] \in {"[SPEAKER:", "[SFX:"}
  /\ \E j \in 3..Len(line) : line[j] = "]"

\* what follows the first "]" of the line
AfterTag(line) ==
  LET j == CHOOSE j \in 3..Len(line) :
             line[j] = "]" /\ \A k \in 2..(j - 1) : line[k] # "]"
  IN  SubSeq(line, j + 1, Len(line))

\* the text of a line that is not its leading tag; a tag later in a line is
\* ordinary text
NonTagText(raw) ==
  LET line == Strip(raw)
  IN  IF BeginsWithTag(line) THEN Strip(AfterTag(line)) ELSE line

\* the texts of a sequence, the empty ones left out, joined by single spaces
RECURSIVE JoinTexts(_)
JoinTexts(texts) ==
  IF texts = <<>> THEN <<>>
  ELSE LET rest == JoinTexts(Tail(texts))
       IN  IF texts[1] = <<>> THEN rest
           ELSE IF rest = <<>> THEN texts[1]
           ELSE texts[1] \o <<" ">> \o rest

\* the texts of the dialogue chunks, in order
DialogueTexts(cs) ==
  LET D == SelectSeq(cs, LAMBDA c : c.type = "dialogue")
  IN  [i \in DOMAIN D |-> D[i].text]

\* C11: once the script is parsed, the texts of the dialogue chunks joined by
\* single spaces are the non-tag texts of the lines of the script joined by
\* single spaces.
C11_TextPreserved ==
  ppc = "done" =>
    JoinTexts(DialogueTexts(chunks))
      = JoinTexts([i \in DOMAIN script |-> NonTagText(script[i])])

(***************************************************************************)
(* C12.  A speaker line.                                                   *)
(***************************************************************************)
\* the lines "[SPEAKER: name]", with or without spaces around the name
SpeakerLineOf(name) ==
  { <<"[SPEAKER:">> \o a \o <<name>> \o b \o <<"]">> : a, b \in {<<>>, <<" ">>} }

\* the step reads a line that is "[SPEAKER: name]" once stripped
ReadsSpeaker(name) ==
  /\ Len(script') = Len(script) + 1
  /\ Strip(script'[Len(script')]) \in SpeakerLineOf(name)

\* a line of the script begins with a speaker opener
SpeakerSeen == \E i \in DOMAIN script : Strip(script[i]) # <<>> /\ Strip(script[i])[1] = "[SPEAKER:"

\* C12: reading a line "[SPEAKER: name]" appends no chunk but the buffered
\* text, if any, as one dialogue chunk of the speaker before the line, empties
\* the buffer and makes name the current speaker; the speaker is "Default"
\* until a speaker line is read.
C12_SpeakerLine ==
  /\ [][\A name \in {"A", "B"} :
          ReadsSpeaker(name) =>
            /\ chunks' =
                 (IF buffer = <<>> THEN chunks
                  ELSE Append(chunks, [type |-> "dialogue",
                                       speaker |-> current_speaker,
                                       text |-> Join(buffer)]))
            /\ buffer' = <<>>
            /\ current_speaker' = <<name>>]_vars
  /\ [](~SpeakerSeen => current_speaker = <<"Default">>)

C12_Witness ==
  /\ script = << <<"Hello">>, <<"[SPEAKER:", " ", "A", "]">>,
                 <<"[SPEAKER:", "B", " ", "]", " ">>, <<"World">> >>
  /\ ppc = "done"
  /\ chunks = << DialogueChunk(<<"Default">>, <<"Hello">>),
                 DialogueChunk(<<"B">>, <<"World">>) >>

(***************************************************************************)
(* C13.  No empty dialogue chunk.                                          *)
(***************************************************************************)
\* the line is a text line: not blank, no leading tag opener
IsTextLine(raw) ==
  Strip(raw) # <<>> /\ Strip(raw)[1] \notin {"[SPEAKER:", "[SFX:"}

\* C13: no dialogue chunk has an empty or whitespace-only text, and there
\* are no more dialogue chunks than lines that are not well-formed tags or
\* blank; a script that is one bare "[SFX: door]" parses to the effect alone.
C13_NoEmptyDialogue ==
  /\ \A i \in DOMAIN chunks :
        chunks[i].type = "dialogue" => Strip(chunks[i].text) # <<>>
  /\ Len(DialogueTexts(chunks))
        <= Cardinality({i \in DOMAIN script :
                          Strip(script[i]) # <<>> /\ ~BeginsWithTag(Strip(script[i]))})
  /\ script = << <<"[SFX:", " ", "door", "]">> >> =>
        chunks = << [type |-> "sfx", effect |-> <<"door">>] >>

C13_Witness ==
  /\ ppc = "done"
  /\ script = << <<"[SPEAKER:", " ", "A", "]">>, <<"[SFX:", " ", "door", "]">>,
                 <<" ">>, <<" ", "[SFX:", "wind", "]">> >>
  /\ chunks = << SfxChunk(<<"door">>), SfxChunk(<<"wind">>) >>

(***************************************************************************)
(* C14.  A tag that is not at the start of the line.                       *)
(***************************************************************************)
\* the stripped line begins with a word and holds a tag later
MidLineTag(line) ==
  /\ line # <<>>
  /\ line[1] \in {"Hello", "World"}
  /\ \E i \in 2..Len(line) : line[i] \in {"[SPEAKER:", "[SFX:"}

\* C14: reading a line that begins with text and holds "[SFX: ...]" or
\* "[SPEAKER: ...]" later appends the whole stripped line to the buffer,
\* appends no chunk and keeps the current speaker.
C14_AnchoredAtStart ==
  [][(Len(script') = Len(script) + 1 /\ MidLineTag(Strip(script'[Len(script')]))) =>
       /\ buffer' = Append(buffer, Strip(script'[Len(script')]))
       /\ chunks' = chunks
       /\ current_speaker' = current_speaker]_vars

C14_Witness ==
  /\ ppc = "done"
  /\ script = << <<"[SPEAKER:", " ", "A", "]">>,
                 <<"Hello", " ", "[SFX:", " ", "door", "]">>,
                 <<"World", " ", "[SPEAKER:", " ", "B", "]">> >>
  /\ chunks = << DialogueChunk(<<"A">>,
                   <<"Hello", " ", "[SFX:", " ", "door", "]", " ",
                     "World", " ", "[SPEAKER:", " ", "B", "]">>) >>

(***************************************************************************)
(* C15.  The duration fitting.                                             *)
(***************************************************************************)
\* the sample at millisecond i of an audio made of plain pieces
RECURSIVE SampleAt(_, _)
SampleAt(audio, i) ==
  IF i < audio[1].ms
    THEN <<audio[1].src, audio[1].off + i, audio[1].gain>>
    ELSE SampleAt(Tail(audio), i - audio[1].ms)

\* ceil(t / d)
CeilDiv(t, d) == (t + d - 1) \div d

\* C15: the fitted clip lasts exactly the target t; its millisecond i is
\* millisecond i mod d of the clip of duration d, so it is the first t ms of
\* the clip when d > t and of the tiled clip when d < t; it is the clip
\* itself when d = t; and it is the first t ms of ceil(t/d) copies.
C15_FitExact ==
  fit_pc = "done" =>
    LET d == Dur(fit_clip)
        t == fit_target
    IN  /\ Dur(fit_out) = t
        /\ \A i \in 0..(t - 1) : SampleAt(fit_out, i) = SampleAt(fit_clip, i % d)
        /\ d = t => fit_out = fit_clip
        /\ d < t => /\ fit_out = Slice(Repeat(fit_clip, CeilDiv(t, d)), 0, t)
                    /\ Len(fit_out) = CeilDiv(t, d)
        /\ (d = 1000 /\ t = 2500) => Len(fit_out) >= 2
        /\ (d = 4000 /\ t = 2000) => fit_out = <<[fit_clip[1] EXCEPT !.ms = 2000]>>

C15_Witness ==
  /\ fit_pc = "done"
  /\ Dur(fit_clip) = 1000
  /\ fit_target = 2500
  /\ Dur(fit_out) = 2500
  /\ Len(fit_out) = 3

(***************************************************************************)
(* C16 - C20.  The timeline of generate and the status main returns.       *)
(***************************************************************************)
\* this step is the iteration of an effect chunk that gave a clip
EffectStep ==
  /\ AtChunk("sfx")
  /\ gen_idx' = gen_idx + 1
  /\ last_clip' # <<>>

\* the mixes of an audio
Mixes(audio) == {i \in DOMAIN audio : audio[i].src = <<"mix", 0>>}

\* C16: an effect that gives a clip while the timeline is at most 2000 ms
\* long is not overlaid: the timeline grows by exactly the length of the
\* fitted clip plus the gap, and what was assembled before is unchanged.
C16_ShortAppends ==
  [][ (EffectStep /\ Dur(podcast) <= OverlapWindow) =>
        /\ Dur(podcast') = Dur(podcast) + Dur(last_clip') + gen_cfg.silence_between_chunks
        /\ Dur(last_clip') = gen_cfg.default_duration
        /\ Slice(podcast', 0, Dur(podcast)) = podcast
        /\ Slice(podcast', Dur(podcast), Dur(podcast) + Dur(last_clip')) = last_clip'
        /\ Cardinality(Mixes(podcast')) = Cardinality(Mixes(podcast))
        /\ overlaid' = overlaid ]_vars

C16_Witness ==
  /\ gen_pc = "loop"
  /\ gen_idx = 2
  /\ gen_chunks[1].type = "dialogue"
  /\ gen_chunks[2].type = "sfx"
  /\ last_clip # <<>>
  /\ gen_cfg = DefaultConfig
  /\ Dur(podcast) = OverlapWindow + gen_cfg.default_duration + gen_cfg.silence_between_chunks
  /\ ~overlaid

\* the larger of two numbers
Max(a, b) == IF a > b THEN a ELSE b

\* after this step the last OverlapWindow ms of the old timeline are one mix
\* of them and of the clip cut to OverlapWindow; the rest is as it was and
\* the timeline grew by at most the part of the clip beyond the window plus the gap
TailOverlaid ==
  LET len == Dur(podcast)
      overlap_point == len - OverlapWindow
      mixed == Slice(podcast', overlap_point, len)
  IN  /\ Slice(podcast', 0, overlap_point) = Slice(podcast, 0, overlap_point)
      /\ Len(mixed) = 1
      /\ mixed[1].src = <<"mix", 0>>
      /\ mixed[1].base = Slice(podcast, overlap_point, len)
      /\ mixed[1].over = Slice(last_clip', 0, OverlapWindow)
      /\ Dur(mixed[1].over) <= OverlapWindow
      /\ Cardinality(Mixes(Slice(podcast', len, Dur(podcast')))) = 0
      /\ Dur(podcast') - len <=
           Max(0, Dur(last_clip') - OverlapWindow) + gen_cfg.silence_between_chunks

\* C17 as stated: every effect that gives a clip while the timeline is longer
\* than 2000 ms is laid over its last 2000 ms.
C17_Original ==
  [][ (EffectStep /\ Dur(podcast) > OverlapWindow) => TailOverlaid ]_vars

\* C17: with sfx_overlap on, an effect that gives a clip while the timeline
\* is longer than W = 2000 ms leaves buffer[0 : len-W] unchanged, is cut to at
\* most W, is mixed onto the last W ms only, and lengthens the timeline by no
\* more than max(0, fitted length - W) plus the gap.
C17_LongOverlays ==
  [][ (EffectStep /\ Dur(podcast) > OverlapWindow /\ gen_cfg.sfx_overlap) =>
        TailOverlaid ]_vars

C17_Witness ==
  /\ gen_pc = "loop"
  /\ gen_idx = 2
  /\ gen_chunks[2].type = "sfx"
  /\ Dur(last_clip) > OverlapWindow
  /\ overlaid
  /\ Cardinality(Mixes(podcast)) = 1
  /\ Dur(podcast) = gen_cfg.intro_silence + PreRoll + 2600
                      + 2 * gen_cfg.silence_between_chunks

\* the loop is over and the timeline is the one to export
Final == gen_pc \in {"export", "done", "export_failed"}

\* the final timeline is no longer than all that was put on it, and shorter
\* when an effect was laid over the tail
WithinBudget ==
  /\ Dur(podcast) <= budget
  /\ overlaid => Dur(podcast) < budget

\* C18 as stated: the final timeline is never empty, whatever the script,
\* the synthesis outcomes and the configured silences.
C18_Original == Final => (Dur(podcast) > 0 /\ WithinBudget)

\* C18: the final timeline lasts at most the lead-in silence plus the
\* dialogue clips, the fitted effect clips, the pre-rolls and the gaps, and
\* strictly less when some effect was laid over the tail; it is non-empty
\* when the lead-in silence or the gap is configured positive.
C18_DurationBound ==
  Final =>
    /\ WithinBudget
    /\ (gen_cfg.intro_silence > 0 \/ gen_cfg.silence_between_chunks > 0) => Dur(podcast) > 0

C18_Witness ==
  /\ gen_pc = "done"
  /\ Len(gen_chunks) = 3
  /\ overlaid
  /\ Cardinality(Mixes(podcast)) = 1
  /\ Dur(podcast) > 0
  /\ budget - Dur(podcast) = gen_cfg.default_duration

\* the indices 1..n in order
UpTo(n) == [i \in 1..n |-> i]

\* C19: a chunk that gives no clip (retries exhausted, empty text, unknown
\* effect, exception in the synthesis) does not end the run: the loop goes
\* through every chunk once, in script order, the chunk after a failed one
\* is gone through like any other, and the run gets to the export.
C19_FailureNotFatal ==
  /\ [][gen_pc = "loop" => gen_pc' \in {"loop", "export"}]_vars
  /\ [][(gen_pc = "loop" /\ gen_idx' # gen_idx) =>
          (gen_idx' = gen_idx + 1 /\ handled' = Append(handled, gen_idx'))]_vars
  /\ [](handled = UpTo(gen_idx))
  /\ [](Final => handled = UpTo(Len(gen_chunks)))
  /\ [](gen_pc = "loop" => <>(gen_pc = "export"))

C19_Witness ==
  /\ gen_pc = "done"
  /\ Len(gen_chunks) = 2
  /\ gen_chunks[1].type = "sfx"
  /\ gen_chunks[1].effect \notin SfxPrompts
  /\ gen_chunks[2].type = "dialogue"
  /\ handled = <<1, 2>>
  /\ last_clip # <<>>
  /\ Dur(podcast) = gen_cfg.intro_silence + PreRoll + 1000 + 2 * gen_cfg.silence_between_chunks

\* C20: main returns 0 exactly when generate exported the podcast; an
\* unreadable script, a failed export and a configuration error give a
\* status other than 0.
C20_ExitStatus ==
  exit_status # <<>> => (exit_status = <<0>> <=> gen_pc = "done")

(***************************************************************************)
(* C26.  What a reader of the ledger file sees during a run.               *)
(***************************************************************************)
\* C26: while log_credit_usage saves the ledger, a reader of the file gets
\* the whole ledger as it was before this record or the whole ledger with it.
C26_NoPartialRead ==
  pc = "saving" => file \in {call_start.file, ValidFile(credits_log)}

(***************************************************************************)
(* C28.  What a failed attempt costs.                                      *)
(***************************************************************************)
\* this step is an outbound attempt that failed
FailedAttempt == AttemptStep /\ last_outcome' # "ok"

\* the failed attempt is counted and followed by one wait
CountedAndWaited ==
  /\ current_attempt' = current_attempt + 1
  /\ sleeps' = sleeps + 1
  /\ pc' = "attempt"

\* C28 as stated: every failed attempt, of whatever kind, takes one of the
\* max_retries attempts and is followed by a wait.
C28_Original == [][FailedAttempt => CountedAndWaited]_vars

\* C28: a failed attempt after which the invoke goes on (any 401/429
\* failure, and any failure when retry_failed_calls is on) takes exactly one
\* of the max_retries attempts and is followed by exactly one wait; a 401/429
\* failure also puts the next key of the pool in the headers; with
\* retry_failed_calls off, another failure ends the invoke at once, without
\* a wait; the attempts made never exceed max_retries, and every attempt but
\* the first comes after a wait.
C28_FailedAttemptCost ==
  /\ [][FailedAttempt =>
          IF last_outcome' = "auth" \/ retry_failed_calls
            THEN /\ CountedAndWaited
                 /\ last_outcome' = "auth" =>
                       /\ hdr_key' = Successor(last_used')
                       /\ issued' # issued
                       /\ issued'[Len(issued')] = hdr_key'
                 /\ last_outcome' # "auth" => hdr_key' = last_used'
            ELSE /\ pc' = "idle"
                 /\ call_result' = "fail"
                 /\ UNCHANGED <<current_attempt, sleeps>>]_vars
  /\ [](pc \in {"attempt", "log", "saving"} =>
          /\ current_attempt <= max_retries
          /\ sleeps = current_attempt
          /\ attempts <= sleeps + 1)

C28_Witness ==
  /\ pc = "attempt"
  /\ max_retries = 3
  /\ Len(api_keys) = 3
  /\ attempts = 2
  /\ sleeps = 2
  /\ last_outcome = "auth"
  /\ hdr_key = api_keys[3]

(***************************************************************************)
(* C21 - C22, C30.  The stages of a run and what they do to the timeline.  *)
(***************************************************************************)
\* parsing and set-up 0, the loop over the chunks 1, the export 2, an end 3
StageRank(p) ==
  CASE p = "main" -> 0
    [] p = "loop" -> 1
    [] p = "export" -> 2
    [] OTHER -> 3

Done == gen_pc = "done"

Failed == gen_pc \in {"config_error", "parse_error", "no_content", "export_failed"}

\* C21: a run goes from the parsing to the loop over the chunks to the
\* export, never back; every API call of the loop ends within max_retries
\* attempts; the run ends in Done or in Failed, which it never leaves.
C21_Terminates ==
  /\ [][StageRank(gen_pc') >= StageRank(gen_pc)]_vars
  /\ [][(gen_pc = "main" /\ gen_pc' = "loop") => gen_chunks' = Parsed(gen_script)]_vars
  /\ [][(gen_pc # "export" /\ gen_pc' = "export") =>
          (gen_pc = "loop" /\ gen_idx = Len(gen_chunks))]_vars
  /\ [][(~Done /\ Done') => gen_pc = "export"]_vars
  /\ [][(Done \/ Failed) => gen_pc' = gen_pc]_vars
  /\ [](StageRank(gen_pc) = 3 <=> (Done \/ Failed))
  /\ [](\A i \in DOMAIN sent : Len(sent[i].used) \in 1..max_retries)
  /\ <>[](Done \/ Failed)

C21_Witness ==
  /\ Done
  /\ Len(gen_chunks) = 3
  /\ gen_idx = 3
  /\ Len(sent) = 3
  /\ exit_status = <<0>>

\* the normalizations each piece of the audio went through
NormCounts(audio) == {audio[i].norm : i \in DOMAIN audio}

\* C22 as stated: whenever the run is at the export or past it, the
\* timeline has been normalized exactly once.
C22_Original == Final => NormCounts(podcast) \subseteq {1}

\* C22: the timeline is not normalized during the loop; after the last
\* chunk it is normalized once when normalize_audio is on and not at all
\* when it is off; from then on nothing is appended or overlaid.
C22_FinalizedOnce ==
  /\ [](gen_pc = "loop" => NormCounts(podcast) \subseteq {0})
  /\ [](Final => NormCounts(podcast) \subseteq {IF gen_cfg.normalize_audio THEN 1 ELSE 0})
  /\ [][(gen_pc = "loop" /\ gen_pc' = "export") =>
          /\ handled = UpTo(Len(gen_chunks))
          /\ podcast' = (IF gen_cfg.normalize_audio THEN Normalized(podcast) ELSE podcast)
          /\ Dur(podcast') = Dur(podcast)]_vars
  /\ [][Final => (podcast' = podcast /\ Final')]_vars

C22_Witness ==
  /\ Done
  /\ gen_cfg.normalize_audio
  /\ overlaid
  /\ Len(gen_chunks) = 3
  /\ NormCounts(podcast) = {1}

\* this step is the iteration of a dialogue chunk that gave a clip
DialogueStep ==
  /\ AtChunk("dialogue")
  /\ gen_idx' = gen_idx + 1
  /\ last_clip' # <<>>

\* C30: a dialogue chunk that gives a clip of c ms extends the timeline by
\* the 300 ms pre-roll, the clip and the configured gap (200 ms by default),
\* in this order, and what was assembled before is unchanged.
C30_DialogueAppends ==
  [][ DialogueStep =>
        LET c == Dur(last_clip')
            gap == gen_cfg.silence_between_chunks
            was == Dur(podcast)
        IN  /\ podcast' = podcast \o Silent(PreRoll) \o last_clip' \o Silent(gap)
            /\ Dur(podcast') = was + PreRoll + c + gap
            /\ Slice(podcast', 0, was) = podcast
            /\ Slice(podcast', was, was + PreRoll) = Silent(PreRoll)
            /\ Slice(podcast', was + PreRoll, was + PreRoll + c) = last_clip'
            /\ Slice(podcast', was + PreRoll + c, was + PreRoll + c + gap) = Silent(gap)
            /\ (gen_cfg = DefaultConfig => Dur(podcast') = was + 500 + c) ]_vars

C30_Witness ==
  /\ gen_pc = "loop"
  /\ gen_cfg = DefaultConfig
  /\ gen_idx = 1
  /\ gen_chunks[1].type = "dialogue"
  /\ Dur(last_clip) = 2600
  /\ Dur(podcast) = 500 + 300 + 2600 + 200
  /\ podcast = Silent(500) \o Silent(300) \o last_clip \o Silent(200)

(***************************************************************************)
(* C23 - C25, C27, C29.  The API calls of a run.                           *)
(***************************************************************************)
\* the effect of the chunk the loop is at
EffectHere == gen_chunks[gen_idx + 1].effect

\* this step is generate_sfx for an effect that is in the cache
CacheHit ==
  /\ AtChunk("sfx")
  /\ gen_version = 2
  /\ EffectHere \in DOMAIN sfx_cache
  /\ gen_idx' = gen_idx + 1

\* this step is generate_sfx for an effect that is not in the cache and
\* gives a clip
Synthesis ==
  /\ EffectStep
  /\ gen_version = 2
  /\ EffectHere \notin DOMAIN sfx_cache

\* the calls of v2 that sent the prompt of an effect and got a response
SfxResponses(effect) ==
  {i \in DOMAIN sent : /\ sent[i].op = "sfx_generation"
                       /\ sent[i].response
                       /\ gen_chunks[sent[i].chunk].effect = effect}

\* C23: the clip generate_sfx builds is put in the cache under the effect's
\* name (the duration of the key is default_duration in every request of a
\* run); an entry is never removed or replaced and is added only by a call
\* made for an effect that has none; a request for a cached effect returns
\* the cached clip with no API call, no key taken from the pool and no
\* ledger record.
C23_CachedOnce ==
  /\ [][Synthesis => /\ sfx_cache' = Cached(sfx_cache, EffectHere, last_clip')
                     /\ EffectHere \in DOMAIN sfx_cache'
                     /\ sfx_cache'[EffectHere] = last_clip'
                     /\ Dur(last_clip') = gen_cfg.default_duration
                     /\ Len(sent') = Len(sent) + 1]_vars
  /\ [][CacheHit => /\ last_clip' = sfx_cache[EffectHere]
                    /\ UNCHANGED <<sfx_cache, sent, console>>
                    /\ UNCHANGED <<current_index, issued, clock>>
                    /\ UNCHANGED <<credits_log, file, completed>>]_vars
  /\ [][\A k \in DOMAIN sfx_cache : k \in DOMAIN sfx_cache' /\ sfx_cache'[k] = sfx_cache[k]]_vars
  /\ [][sfx_cache' # sfx_cache => (gen_version = 2 => Synthesis)]_vars
  /\ [](gen_version = 2 =>
          \A e \in DOMAIN sfx_cache :
            \A i, j \in SfxResponses(e) : (i < j => sent[i].chunk < sent[j].chunk))

C23_Witness ==
  /\ gen_version = 2
  /\ gen_pc = "loop"
  /\ Len(gen_chunks) = 3
  /\ gen_idx = 3
  /\ gen_chunks[2].type = "sfx"
  /\ gen_chunks[3].type = "sfx"
  /\ gen_chunks[2].effect = gen_chunks[3].effect
  /\ gen_chunks[3].effect \in DOMAIN sfx_cache
  /\ last_clip = sfx_cache[gen_chunks[3].effect]
  /\ Len(sent) = 2
  /\ sent[2].chunk = 2
  /\ Len(completed) = 2
  /\ Len(issued) = 2

\* C24: with an empty pool main ends with the configuration error and
\* status 1 as its first step: the script is not parsed, no call is made,
\* no key is taken from the pool and the ledger and its file stay as loaded.
C24_NoCredentialsAbort ==
  /\ [](api_keys = <<>> =>
          /\ gen_pc \in {"main", "config_error"}
          /\ gen_chunks = <<>>
          /\ podcast = <<>>
          /\ sent = <<>>
          /\ issued = <<>>
          /\ completed = <<>>
          /\ file = run_start_file
          /\ DOMAIN credits_log = {}
          /\ exit_status = (IF gen_pc = "main" THEN <<>> ELSE <<1>>))
  /\ [](issued # <<>> => api_keys # <<>>)
  /\ [][(api_keys = <<>> /\ gen_pc = "main") =>
          (gen_pc' = "config_error" /\ exit_status' = <<1>>)]_vars

C24_Witness ==
  /\ api_keys = <<>>
  /\ gen_pc = "config_error"
  /\ exit_status = <<1>>
  /\ Parsed(gen_script) # <<>>
  /\ gen_chunks = <<>>

\* the elements of a sequence
Range(seq) == {seq[i] : i \in DOMAIN seq}

\* C25: nothing written to the console shows a key of the pool in full, and
\* the ledger is keyed by key ids only.
C25_NoFullKey ==
  /\ \A i \in DOMAIN console : Range(console[i].shown) \cap Range(api_keys) = {}
  /\ DOMAIN credits_log \cap Range(api_keys) = {}

\* the records of the ledger, of either version
LedgerRecords ==
  UNION { Range(IF gen_version = 1 THEN credits_log[id] ELSE credits_log[id].calls) :
          id \in DOMAIN credits_log }

\* the calls that got a response, in order
Responses == SelectSeq(sent, LAMBDA c : c.response)

\* data["text"] of a call made for chunk
TextSent(chunk) ==
  IF chunk.type = "dialogue" THEN chunk.text
  ELSE EnhancedPrompt(SfxPrompt(Lower(chunk.effect)))

\* C27: every record has credits_used = character_count = the length of
\* the text sent by the call it records: the text of the dialogue chunk, or
\* the prompt of the effect with its prefix.
C27_CreditsPerCharacter ==
  /\ \A rec \in LedgerRecords : rec.credits_used = rec.character_count
  /\ LedgerRecords = {completed[i][2] : i \in DOMAIN completed}
  /\ Len(completed) = Len(Responses)
  /\ \A i \in DOMAIN completed :
       LET rec == completed[i][2]
           call == Responses[i]
       IN  /\ rec.credits_used = rec.character_count
           /\ rec.character_count = Len(call.text)
           /\ call.text = TextSent(gen_chunks[call.chunk])
           /\ completed[i][1] = KeyId(call.api_key)

C27_Witness ==
  /\ gen_version = 2
  /\ Len(completed) = 2
  /\ completed[1][2].operation_type = "speech_synthesis"
  /\ completed[1][2].credits_used = 1
  /\ completed[2][2].operation_type = "sfx_generation"
  /\ completed[2][2].character_count = 11
  /\ completed[2][2].credits_used = 11

\* make_api_call with this key in the headers (NoKey: none), from the
\* state of the pool: however it ends, the first attempt used the key of
\* the headers, or the one key taken at the cursor; a success at the first
\* attempt took no other key
FirstAttempt(hdr) ==
  \A r \in ApiCallResults(api_keys, max_retries, retry_failed_calls, current_index,
                          hdr, 0, <<>>, <<>>) :
    LET first == IF hdr = NoKey THEN NextApiKey(api_keys, current_index) ELSE hdr
        took == IF hdr = NoKey THEN <<first>> ELSE <<>>
    IN  /\ r.used[1] = first
        /\ SubSeq(r.got, 1, Len(took)) = took
        /\ (r.response /\ Len(r.used) = 1) =>
             /\ r.api_key = first
             /\ r.got = took
             /\ r.index = (current_index + Len(took)) % Len(api_keys)

\* every call so far got its response at the first attempt
AllFirstTime == \A i \in DOMAIN sent : sent[i].response /\ Len(sent[i].used) = 1

\* C29: the first attempt of make_api_call uses the key of the headers when
\* there is one and else takes exactly one key from the pool; a call that
\* succeeds at its first attempt moves the cursor by one position (the
\* callers pass no key), so when every call succeeds at once the i-th call,
\* counted from 0, uses key i mod n.
C29_FirstAttemptKey ==
  /\ api_keys # <<>> => \A hdr \in {NoKey} \cup Range(api_keys) : FirstAttempt(hdr)
  /\ \A i \in DOMAIN sent :
       /\ sent[i].used[1] = api_keys[sent[i].cursor + 1]
       /\ (sent[i].response /\ Len(sent[i].used) = 1) =>
            /\ sent[i].api_key = sent[i].used[1]
            /\ sent[i].index = (sent[i].cursor + 1) % Len(api_keys)
  /\ AllFirstTime =>
       /\ \A i \in DOMAIN sent : sent[i].api_key = api_keys[((i - 1) % Len(api_keys)) + 1]
       /\ issued = [i \in DOMAIN sent |-> sent[i].api_key]
       /\ api_keys # <<>> => current_index = Len(sent) % Len(api_keys)

C29_Witness ==
  /\ gen_version = 2
  /\ Len(api_keys) = 2
  /\ Len(sent) = 3
  /\ AllFirstTime
  /\ sent[1].api_key = api_keys[1]
  /\ sent[2].api_key = api_keys[2]
  /\ sent[3].api_key = api_keys[1]
  /\ current_index = 1

(***************************************************************************)
(* C31 - C38.  Ledger entries, skipped chunks and runs that share a ledger.*)
(***************************************************************************)
\* this step is the in-memory part of log_credit_usage
LogStep == pc = "log" /\ pc' = "saving"

\* the entry the ledger has, or would get, for key_id
EntryOf(log, key_id) == WithEntry(log, key_id)[key_id]

\* C31: when usage is recorded for a key, the entry under the identifier of
\* every other key of the pool, its total included, is unchanged.
C31_OwnEntry ==
  [][ LogStep =>
        \A i \in DOMAIN api_keys :
          api_keys[i] # hdr_key =>
            EntryOf(credits_log', KeyId(api_keys[i])) = EntryOf(credits_log, KeyId(api_keys[i])) ]_vars

\* C32: the record of a call that got a response is stored under the
\* identifier of the key of its last attempt, the one that got the
\* response, and that identifier is not the identifier of a different key
\* that an earlier, failed attempt of the same call used.
C32_Attribution ==
  /\ Len(completed) = Len(Responses)
  /\ \A i \in DOMAIN completed :
       LET call == Responses[i]
       IN  /\ call.api_key = call.used[Len(call.used)]
           /\ completed[i][1] = KeyId(call.api_key)
           /\ \A j \in DOMAIN call.used :
                call.used[j] # call.api_key => KeyId(call.used[j]) # completed[i][1]

\* this step is the iteration of a chunk that gave no clip
SkipStep ==
  /\ gen_pc = "loop"
  /\ gen_idx' = gen_idx + 1
  /\ last_clip' = <<>>

\* C33: a chunk that gives no clip, dialogue or effect, adds the gap to the
\* end of the timeline and nothing else: no pre-roll, no clip, no mix, and
\* what was assembled before is unchanged.
C33_SkipAddsGap ==
  [][ SkipStep =>
        LET gap == gen_cfg.silence_between_chunks
        IN  /\ podcast' = podcast \o Silent(gap)
            /\ Dur(podcast') = Dur(podcast) + gap
            /\ Slice(podcast', 0, Dur(podcast)) = podcast
            /\ Mixes(podcast') = Mixes(podcast)
            /\ overlaid' = overlaid
            /\ budget' = budget + gap ]_vars

C33_Witness ==
  /\ gen_pc = "loop"
  /\ Len(gen_chunks) = 2
  /\ gen_chunks[1].type = "sfx"
  /\ gen_chunks[2].type = "dialogue"
  /\ gen_idx = 2
  /\ last_clip = <<>>
  /\ gen_cfg = DefaultConfig
  /\ podcast = Silent(500) \o Silent(200) \o Silent(200)

\* texts that are empty after text.strip()
BlankTexts == { <<>>, <<" ">>, <<" ", " ">> }

\* this step is the iteration of an effect chunk whose name has no prompt
NoPromptStep ==
  /\ AtChunk("sfx")
  /\ gen_version = 2
  /\ Lower(EffectHere) \notin SfxPrompts
  /\ gen_idx' = gen_idx + 1

\* C34: from every state of the pool, synthesize of a blank text makes no
\* call and returns nothing; an effect chunk whose name has no prompt is
\* skipped with the cursor, the keys issued, the ledger, its file, the calls
\* made and the clip cache unchanged.
C34_NoCallWithoutText ==
  /\ [](api_keys # <<>> =>
          \A text \in BlankTexts :
            SynthesizeResults(gen_version, api_keys, max_retries, retry_failed_calls,
                              current_index, gen_idx + 1, text)
              = { Outcome(FALSE, NoCall, text, 0, <<>>, <<>>) })
  /\ [][NoPromptStep =>
          /\ last_clip' = <<>>
          /\ UNCHANGED <<current_index, issued, clock, sent, console>>
          /\ UNCHANGED <<credits_log, file, completed>>
          /\ UNCHANGED sfx_cache]_vars
  /\ [](\A i \in DOMAIN sent :
          IF gen_chunks[sent[i].chunk].type = "dialogue"
            THEN Strip(sent[i].text) # <<>>
            ELSE Lower(gen_chunks[sent[i].chunk].effect) \in SfxPrompts)

C34_Witness ==
  /\ gen_version = 2
  /\ gen_pc = "loop"
  /\ gen_idx = 1
  /\ gen_chunks[1].type = "sfx"
  /\ Lower(gen_chunks[1].effect) \notin SfxPrompts
  /\ last_clip = <<>>
  /\ sent = <<>>
  /\ issued = <<>>
  /\ current_index = 0
  /\ sfx_cache = <<>>
  /\ Len(api_keys) = 3

\* this step is an attempt that failed with another status or an exception
\* while retry_failed_calls is off
UnretriedFailure ==
  /\ ~retry_failed_calls
  /\ FailedAttempt
  /\ last_outcome' \in {"other", "exc"}

\* this step is an attempt that got 401/429 while retry_failed_calls is off
AuthFailureUnretried ==
  /\ ~retry_failed_calls
  /\ FailedAttempt
  /\ last_outcome' = "auth"

\* C35: with retry_failed_calls off, a failure with another status or an
\* exception makes make_api_call return the failure at once, with no
\* further attempt, rotation or wait; a 401/429 failure still rotates the
\* key and goes on to the next attempt until max_retries attempts are made.
\* So an invoke that fails ended either at its first failure of the former
\* kind or after max_retries failures of the latter kind.
C35_NoRetryWhenDisabled ==
  /\ [][UnretriedFailure =>
          /\ pc' = "idle"
          /\ call_result' = "fail"
          /\ hdr_key' = last_used'
          /\ issued' = RequestIssued
          /\ UNCHANGED <<current_attempt, sleeps, credits_log, file>>]_vars
  /\ [][AuthFailureUnretried =>
          /\ pc' = "attempt"
          /\ call_result' = "none"
          /\ current_attempt' = current_attempt + 1
          /\ hdr_key' = Successor(last_used')]_vars
  /\ []((~retry_failed_calls /\ pc = "attempt") =>
          /\ attempts = current_attempt
          /\ last_outcome \in {"none", "auth"})
  /\ []((~retry_failed_calls /\ pc = "idle" /\ call_result = "fail") =>
          \/ last_outcome \in {"other", "exc"} /\ attempts <= max_retries
          \/ last_outcome = "auth" /\ attempts = max_retries)

C35_Witness ==
  /\ ~retry_failed_calls
  /\ max_retries = 3
  /\ pc = "idle"
  /\ call_result = "fail"
  /\ last_outcome = "exc"
  /\ attempts = 2
  /\ Len(issued) = 2

\* this step is generate_sfx for an effect that has a prompt and is not in
\* the cache
UncachedRequest ==
  /\ AtChunk("sfx")
  /\ gen_version = 2
  /\ Lower(EffectHere) \in SfxPrompts
  /\ EffectHere \notin DOMAIN sfx_cache
  /\ gen_idx' = gen_idx + 1

\* the calls made for the effect chunk j
CallsFor(j) == {i \in DOMAIN sent : sent[i].chunk = j}

\* C36: an effect chunk that gives no clip leaves the cache as it was, so
\* the next chunk with the same effect makes a call of its own; every
\* effect chunk with a prompt either made a call or came after a call for
\* the same effect that got a response; and every clip of the cache is non
\* empty, lasts exactly default_duration and comes from a call that got a
\* response.
C36_FailureNotCached ==
  /\ [][(SkipStep /\ AtChunk("sfx")) => sfx_cache' = sfx_cache]_vars
  /\ [][UncachedRequest =>
          /\ Len(sent') = Len(sent) + 1
          /\ sent'[Len(sent')].chunk = gen_idx + 1
          /\ sent'[Len(sent')].op = "sfx_generation"
          /\ (~sent'[Len(sent')].response => sfx_cache' = sfx_cache)]_vars
  /\ [](gen_version = 2 =>
          \A j \in 1..gen_idx :
            (gen_chunks[j].type = "sfx" /\ Lower(gen_chunks[j].effect) \in SfxPrompts) =>
              \/ CallsFor(j) # {}
              \/ \E i \in SfxResponses(gen_chunks[j].effect) : sent[i].chunk < j)
  /\ [](gen_version = 2 =>
          \A e \in DOMAIN sfx_cache :
            /\ sfx_cache[e] # <<>>
            /\ Dur(sfx_cache[e]) = gen_cfg.default_duration
            /\ SfxResponses(e) # {})

C36_Witness ==
  /\ gen_version = 2
  /\ Len(gen_chunks) = 3
  /\ gen_idx = 3
  /\ gen_chunks[2].type = "sfx"
  /\ gen_chunks[3].type = "sfx"
  /\ gen_chunks[2].effect = gen_chunks[3].effect
  /\ Len(sent) = 3
  /\ sent[2].chunk = 2
  /\ ~sent[2].response
  /\ sent[3].chunk = 3
  /\ sent[3].response
  /\ gen_chunks[3].effect \in DOMAIN sfx_cache
  /\ last_clip = sfx_cache[gen_chunks[3].effect]

\* the ledger as the constructor of the running version loaded it
LoadedLedger ==
  IF gen_version = 1 THEN LoadCreditsLogV1(run_start_file, api_keys)
  ELSE LoadCreditsLog(run_start_file, api_keys)

\* C37: a run with keys whose script gives no chunks (empty, blank lines
\* only, speaker tags only) ends with generate returning False, or with the
\* parse raising: it never gets to the loop or to the export, takes no key,
\* makes no call, leaves the ledger and its file as loaded, and main of v2
\* returns 1.
C37_NoChunksNoWork ==
  /\ []((api_keys # <<>> /\ Parsed(gen_script) = <<>>) =>
          /\ gen_pc \in {"ui", "main", "no_content", "parse_error"}
          /\ gen_chunks = <<>>
          /\ podcast = <<>>
          /\ sent = <<>>
          /\ issued = <<>>
          /\ current_index = 0
          /\ completed = <<>>
          /\ credits_log = LoadedLedger
          /\ file = run_start_file
          /\ (gen_version = 2 => exit_status \in {<<>>, <<1>>}))
  /\ [](gen_pc = "no_content" => Parsed(gen_script) = <<>>)
  /\ [][(gen_pc = "no_content" /\ gen_version = 2 /\ exit_status' # exit_status) =>
          exit_status' = <<1>>]_vars

C37_Witness ==
  /\ gen_version = 2
  /\ Len(api_keys) = 3
  /\ gen_pc = "no_content"
  /\ exit_status = <<1>>
  /\ Len(gen_script) = 1
  /\ TagMatch("[SPEAKER:", gen_script[1])
  /\ sent = <<>>
  /\ file = MissingFile

(***************************************************************************)
(* Generations started from the UI.  generate_podcast starts a process of  *)
(* podcast_generator_v2.py in a thread of its own and returns; nothing     *)
(* keeps the user from starting another while the first one runs.  Each    *)
(* process constructs its ApiKeyManager, which loads the ledger file once, *)
(* and writes its whole in-memory ledger to the file at every record.      *)
(***************************************************************************)
\* the processes
Runs == {1, 2}

\* a process that was not started
RunOff == [pc |-> "off", log |-> NoLedger, calls |-> 0, pending |-> <<>>]

InitShared ==
  /\ api_keys \in {Pool(1), Pool(2)}
  /\ max_retries = 1
  /\ retry_failed_calls = TRUE
  /\ current_index = 0
  /\ file \in {MissingFile, ValidFile(OldLedger)}
  /\ credits_log = LoadCreditsLog(file, api_keys)
  /\ pc = "off"
  /\ current_attempt = 0
  /\ hdr_key = NoKey
  /\ text_len = 0
  /\ call_result = "none"
  /\ clock = 0
  /\ issued = <<>>
  /\ last_used = NoKey
  /\ attempts = 0
  /\ sleeps = 0
  /\ last_outcome = "none"
  /\ call_start = [log |-> credits_log, file |-> file]
  /\ completed = <<>>
  /\ run_start_file = file
  /\ ParseIdle
  /\ FitIdle
  /\ GenIdle
  /\ runs = [r \in Runs |-> RunOff]

\* what the processes leave alone
sharedFrame ==
  <<config, current_index, credits_log, pc, current_attempt, hdr_key, text_len,
    call_result, issued, last_used, attempts, sleeps, last_outcome, call_start,
    run_start_file, parseVars, fitVars, genVars>>

\* the process starts: main constructs the ApiKeyManager, which loads the file
RunStarts(r) ==
  /\ runs[r].pc = "off"
  /\ runs' = [runs EXCEPT ![r] = [pc |-> "idle", log |-> LoadCreditsLog(file, api_keys),
                                  calls |-> 0, pending |-> <<>>]]
  /\ UNCHANGED <<file, clock, completed, sharedFrame>>

\* a call of the process got a response: log_credit_usage adds the record
\* to the ledger of the process and _save_credits_log opens the file
RunLogs(r) ==
  /\ runs[r].pc = "idle"
  /\ runs[r].calls < MaxCalls
  /\ \E i \in DOMAIN api_keys :
       LET ts == clock + 1
           rec == CallRecord(ts, "speech_synthesis", 1, CreditsFor(1))
       IN  /\ runs' = [runs EXCEPT ![r].log = LogCreditUsage(@, api_keys[i], 1, CreditsFor(1),
                                                            "speech_synthesis", ts),
                                   ![r].pending = <<KeyId(api_keys[i]), rec>>,
                                   ![r].pc = "saving"]
           /\ clock' = ts
  /\ file' = PartialFile
  /\ UNCHANGED <<completed, sharedFrame>>

\* json.dump and the close of the file: the file holds the ledger of the
\* process, or bytes of two ledgers when the other process is writing too
RunDumps(r) ==
  /\ runs[r].pc = "saving"
  /\ file' \in (IF \E o \in Runs \ {r} : runs[o].pc = "saving"
                  THEN {SavedFile(runs[r].log), PartialFile}
                  ELSE {SavedFile(runs[r].log)})
  /\ completed' = Append(completed, runs[r].pending)
  /\ runs' = [runs EXCEPT ![r].pc = "idle", ![r].calls = @ + 1, ![r].pending = <<>>]
  /\ UNCHANGED <<clock, sharedFrame>>

\* the process ends
RunFinishes(r) ==
  /\ runs[r].pc = "idle"
  /\ runs' = [runs EXCEPT ![r].pc = "finished"]
  /\ UNCHANGED <<file, clock, completed, sharedFrame>>

NextShared ==
  \E r \in Runs :
    \/ RunStarts(r)
    \/ RunLogs(r)
    \/ RunDumps(r)
    \/ RunFinishes(r)

SpecShared == InitShared /\ [][NextShared]_vars

\* the records the ledger file holds under key_id
FileRecords(key_id) ==
  IF file.state = "valid" /\ key_id \in DOMAIN file.data
    THEN Range(file.data[key_id].calls)
    ELSE {}

\* both processes have ended
AllFinished == \A r \in Runs : runs[r].pc = "finished"

\* C38: after both processes have ended, the ledger file holds every record
\* that either of them saved.
C38_NoLostRecord ==
  AllFinished => \A i \in DOMAIN completed : completed[i][2] \in FileRecords(completed[i][1])

=============================================================================
